---- MODULE Spec2Model ----
(***************************************************************************)
(* TractorCare backend (src/tractorcare-backend): the baseline lifecycle   *)
(* of baseline_service.py and its routes, the engine-hours / alert /       *)
(* maintenance-record handlers of the routes, and the schedule predictor   *)
(* and unified engine of maintenance_service.py.                           *)
(*                                                                         *)
(* Documents of the store are records.  The baseline, session and anomaly  *)
(* collections are sets of records, each with the id the store gave it;    *)
(* the alert, usage-log and maintenance-record collections, which no       *)
(* handler reads in insertion order, are bags of records.  Hours are       *)
(* integers (engine hours), dates are integer day numbers, `now` is the    *)
(* current day.                                                            *)
(***************************************************************************)
EXTENDS Integers, Sequences, FiniteSets, Bags, TLC

VARIABLES
    tractors,      \* Tractor collection: tractor_id -> document or NoTractor
    schedules,     \* MaintenanceSchedule collection: set of seeded models
    baselines,     \* TractorBaseline collection
    metadata,      \* BaselineMetadata collection (collection sessions)
    alerts,        \* MaintenanceAlert collection
    usage_logs,    \* DailyUsage collection
    records,       \* MaintenanceRecord collection
    anomalies,     \* Anomaly collection
    next_id,       \* next id / creation stamp of a baseline or session document
    now,           \* current day (datetime.utcnow(), in days)
    ret,           \* outcome of the last request
    calls,         \* in-flight requests of the interleaved specifications
    pin,           \* input of the pure function under check
    pout           \* its output

vars == <<tractors, schedules, baselines, metadata, alerts, usage_logs, records,
          anomalies, next_id, now, ret, calls, pin, pout>>

----------------------------------------------------------------------------
(* Bounds of the model *)

MaxDocs == 4          \* baseline and session documents created in one behaviour
MaxSamples == 4       \* samples added to one collection session
MaxAlerts == 3        \* MaintenanceAlert documents
MaxLogs == 2          \* DailyUsage documents
MaxRecords == 2       \* MaintenanceRecord documents
MaxAnomalies == 1     \* Anomaly documents
MaxList == 3          \* alerts in a list given to _deduplicate_alerts
MaxHealthAlerts == 5  \* alerts in a list given to _calculate_health_score
MaxRecent == 7        \* anomalies of the last 7 days
MaxAudioAnomalies == 2  \* Anomaly documents given to generate_all_alerts

Tractors == {"T1", "T2"}
Procs == {"p1", "p2"}
NoTractor == [none |-> "tractor"]
NoDoc == [none |-> "doc"]
NoRet == [op |-> "none", status |-> "none"]
Idle == [pc |-> "idle"]

(* Audio files: extract_mfcc_features succeeds on "ok" and raises on "bad" *)
AudioFiles == {"ok", "bad"}
TargetSamples == {3}

----------------------------------------------------------------------------
(* Baseline service *)

Establishing(ms, t) == {m \in ms : m.tractor_id = t /\ m.status = "establishing"}

(* find_one({...}): some matching document, NoDoc when there is none *)
FindOne(S) == IF S = {} THEN {NoDoc} ELSE S

Replace(S, old, new) == (S \ {old}) \cup {new}

(* variant in which every sample yields features *)
ExtractAll_every_file(files) == Len(files)

RECURSIVE ExtractAll(_)
ExtractAll(files) ==
    IF files = <<>> THEN 0
    ELSE (IF Head(files) = "ok" THEN 1 ELSE 0) + ExtractAll(Tail(files))

ActiveOf(bs, t) == {b \in bs : b.tractor_id = t /\ b.is_active}

get_active_baseline(bs, t) ==
    {b \in bs : b.tractor_id = t /\ b.is_active /\ b.status = "active"}

(* variant that removes the old baseline instead of archiving it *)
_archive_by_delete(bs, existing) ==
    IF existing = NoDoc THEN bs ELSE bs \ {existing}

(* variant that archives the old baseline but leaves it active *)
_archive_keep_active(bs, existing) ==
    IF existing = NoDoc THEN bs
    ELSE Replace(bs, existing, [existing EXCEPT !.status = "archived"])

_archive_existing_baseline(bs, existing) ==
    IF existing = NoDoc THEN bs
    ELSE Replace(bs, existing,
                 [existing EXCEPT !.is_active = FALSE, !.status = "archived"])

NewBaseline(t, id, files) ==
    [id |-> id, tractor_id |-> t, is_active |-> TRUE, status |-> "active",
     created_at |-> id, num_samples |-> ExtractAll(files)]

NewMetadata(t, id, target) ==
    [id |-> id, tractor_id |-> t, target_samples |-> target,
     collected_samples |-> 0, sample_files |-> <<>>, status |-> "establishing"]

SetBaselineStatus(ts, t, s) == [ts EXCEPT ![t].baseline_status = s]

UnchangedMaint == UNCHANGED <<schedules, alerts, usage_logs, records, anomalies, now>>
UnchangedPure == UNCHANGED <<pin, pout>>

start_baseline_collection(t, target) ==
    /\ tractors[t] # NoTractor
    /\ \E existing \in FindOne(Establishing(metadata, t)) :
         IF existing # NoDoc
         THEN /\ ret' = [op |-> "start", status |-> "existing", tractor |-> t]
              /\ UNCHANGED <<metadata, next_id>>
         ELSE /\ next_id <= MaxDocs
              /\ metadata' = metadata \cup {NewMetadata(t, next_id, target)}
              /\ next_id' = next_id + 1
              /\ ret' = [op |-> "start", status |-> "ok", tractor |-> t]
    /\ UNCHANGED <<tractors, baselines, calls>>
    /\ UnchangedMaint /\ UnchangedPure

(* variant that puts the new sample at the head of the list *)
add_baseline_sample_at_head(t, file) ==
    /\ tractors[t] # NoTractor
    /\ \E m \in FindOne(Establishing(metadata, t)) :
         IF m = NoDoc
         THEN /\ ret' = [op |-> "add_sample", status |-> "no_collection", tractor |-> t]
              /\ UNCHANGED metadata
         ELSE /\ m.collected_samples < MaxSamples
              /\ metadata' = Replace(metadata, m,
                     [m EXCEPT !.sample_files = <<file>> \o @,
                               !.collected_samples = @ + 1])
              /\ ret' = [op |-> "add_sample", status |-> "ok", tractor |-> t,
                         collected_samples |-> m.collected_samples + 1,
                         target_samples |-> m.target_samples]
    /\ UNCHANGED <<tractors, baselines, next_id, calls>>
    /\ UnchangedMaint /\ UnchangedPure

add_baseline_sample(t, file) ==
    /\ tractors[t] # NoTractor
    /\ \E m \in FindOne(Establishing(metadata, t)) :
         IF m = NoDoc
         THEN /\ ret' = [op |-> "add_sample", status |-> "no_collection", tractor |-> t]
              /\ UNCHANGED metadata
         ELSE /\ m.collected_samples < MaxSamples
              /\ metadata' = Replace(metadata, m,
                     [m EXCEPT !.sample_files = Append(@, file),
                               !.collected_samples = @ + 1])
              /\ ret' = [op |-> "add_sample", status |-> "ok", tractor |-> t,
                         collected_samples |-> m.collected_samples + 1,
                         target_samples |-> m.target_samples]
    /\ UNCHANGED <<tractors, baselines, next_id, calls>>
    /\ UnchangedMaint /\ UnchangedPure

finalize_baseline(t) ==
    /\ tractors[t] # NoTractor
    /\ \E m \in FindOne(Establishing(metadata, t)) :
         IF m = NoDoc
         THEN /\ ret' = [op |-> "finalize", status |-> "no_collection", tractor |-> t]
              /\ UNCHANGED <<tractors, baselines, metadata, next_id>>
         ELSE IF m.collected_samples < 3
         THEN /\ ret' = [op |-> "finalize", status |-> "need_samples", tractor |-> t]
              /\ UNCHANGED <<tractors, baselines, metadata, next_id>>
         ELSE IF ExtractAll(m.sample_files) < 3
         THEN /\ ret' = [op |-> "finalize", status |-> "need_features", tractor |-> t]
              /\ UNCHANGED <<tractors, baselines, metadata, next_id>>
         ELSE /\ next_id <= MaxDocs
              /\ \E existing \in FindOne(ActiveOf(baselines, t)) :
                   baselines' = _archive_existing_baseline(baselines, existing)
                                  \cup {NewBaseline(t, next_id, m.sample_files)}
              /\ next_id' = next_id + 1
              /\ metadata' = Replace(metadata, m, [m EXCEPT !.status = "active"])
              /\ tractors' = SetBaselineStatus(tractors, t, "completed")
              /\ ret' = [op |-> "finalize", status |-> "ok", tractor |-> t]
    /\ UNCHANGED calls
    /\ UnchangedMaint /\ UnchangedPure

delete_baseline(t) ==
    /\ tractors[t] # NoTractor
    /\ \E b \in FindOne(get_active_baseline(baselines, t)) :
         baselines' = baselines \ {b}
    /\ \E m \in FindOne(Establishing(metadata, t)) :
         metadata' = metadata \ {m}
    /\ tractors' = SetBaselineStatus(tractors, t, "pending")
    /\ ret' = [op |-> "delete", status |-> "ok", tractor |-> t]
    /\ UNCHANGED <<next_id, calls>>
    /\ UnchangedMaint /\ UnchangedPure

(* other_baselines sorted by -created_at: the first is the latest created *)
Latest(bs) == CHOOSE b \in bs : \A c \in bs : c.created_at <= b.created_at

ReactivateLatest(bs, t) ==
    LET others == {b \in bs : b.tractor_id = t}
    IN  IF others = {} THEN bs
        ELSE Replace(bs, Latest(others), [Latest(others) EXCEPT !.is_active = TRUE])

delete_specific_baseline(t, bid) ==
    /\ tractors[t] # NoTractor
    /\ \E b \in FindOne({x \in baselines : x.id = bid}) :
         IF b = NoDoc \/ b.tractor_id # t
         THEN /\ ret' = [op |-> "delete_specific", status |-> "not_found", tractor |-> t]
              /\ UNCHANGED <<tractors, baselines>>
         ELSE /\ baselines' = IF b.is_active
                              THEN ReactivateLatest(baselines \ {b}, t)
                              ELSE baselines \ {b}
              /\ tractors' =
                   IF ~b.is_active THEN tractors
                   ELSE IF {x \in baselines \ {b} : x.tractor_id = t} = {}
                        THEN SetBaselineStatus(tractors, t, "pending")
                        ELSE SetBaselineStatus(tractors, t, "completed")
              /\ ret' = [op |-> "delete_specific", status |-> "ok", tractor |-> t]
    /\ UNCHANGED <<metadata, next_id, calls>>
    /\ UnchangedMaint /\ UnchangedPure

----------------------------------------------------------------------------
(* Maintenance catalog (app/core/config.py): the model keeps two of the    *)
(* MF_240 tasks, with their intervals and priorities.                      *)

Models == {"MF_240"}
CatalogTasks == <<"engine_oil_change", "coolant_check">>
TaskSet == {CatalogTasks[i] : i \in 1..Len(CatalogTasks)}
TestTask == "Test Sound Analysis Inspection"
TaskNames == TaskSet \cup {TestTask}

OilIntervalHours == 250
OilIntervalDays == 180
CoolantIntervalHours == 50
CoolantIntervalDays == 30

MAINTENANCE_SCHEDULES ==
    [engine_oil_change |-> [priority |-> "high",
                            interval_hours |-> OilIntervalHours,
                            interval_days |-> OilIntervalDays],
     coolant_check     |-> [priority |-> "medium",
                            interval_hours |-> CoolantIntervalHours,
                            interval_days |-> CoolantIntervalDays]]

ANOMALY_TASK_MAPPING ==
    [high_vibration |-> <<"belt_inspection", "engine_oil_change">>,
     overheating    |-> <<"coolant_check", "air_filter_check">>]
AnomalyTypes == {"high_vibration", "overheating", "unknown"}
DefaultSuggested == <<"engine_oil_change", "air_filter_check">>

Suggested(type) ==
    IF type \in DOMAIN ANOMALY_TASK_MAPPING THEN ANOMALY_TASK_MAPPING[type]
    ELSE DefaultSuggested

NoRecord == [none |-> "record"]
NoAlert == [none |-> "alert"]
NoScore == -1
NoTime == -1

UsageIntensities == {"light", "moderate", "heavy", "extreme"}

priority_order == [critical |-> 0, high |-> 1, medium |-> 2, low |-> 3]

Max(a, b) == IF a >= b THEN a ELSE b
Min(a, b) == IF a <= b THEN a ELSE b

----------------------------------------------------------------------------
(* Schedule predictor (MaintenancePredictor).  The usage factor is kept in *)
(* tenths (0.8 -> 8), so interval / factor = 10 * interval / factor10; a   *)
(* progress p is the fraction ProgressNum / ProgressDen.                   *)

(* variant that stretches the intervals for heavier use *)
_get_usage_factor_inverse(usage) ==
    CASE usage = "light"    -> 12
      [] usage = "moderate" -> 10
      [] usage = "heavy"    -> 8
      [] usage = "extreme"  -> 6
      [] OTHER              -> 10

_get_usage_factor(usage) ==
    CASE usage = "light"    -> 8
      [] usage = "moderate" -> 10
      [] usage = "heavy"    -> 12
      [] usage = "extreme"  -> 15
      [] OTHER              -> 10

LastHours(tr, task) ==
    IF tr.last_maintenance[task] = NoRecord THEN 0
    ELSE tr.last_maintenance[task].engine_hours

LastDate(tr, task) ==
    IF tr.last_maintenance[task] = NoRecord THEN tr.purchase_date
    ELSE tr.last_maintenance[task].date

HoursSince(tr, task) == tr.engine_hours - LastHours(tr, task)
DaysSince(tr, task, today) == today - LastDate(tr, task)

(* the exact progress max(hours_since / interval_hours, days_since /       *)
(* interval_days) as the fraction ProgressNum / ProgressDen                *)
ProgressNum(hs, ds, f, task) ==
    Max(hs * f * MAINTENANCE_SCHEDULES[task].interval_days,
        ds * f * MAINTENANCE_SCHEDULES[task].interval_hours)

ProgressDen(task) ==
    10 * MAINTENANCE_SCHEDULES[task].interval_hours
       * MAINTENANCE_SCHEDULES[task].interval_days

(* The code computes x / (interval / usage_factor) in IEEE-754 doubles.  For *)
(* the whole hours and days and the intervals of the catalog above, the      *)
(* double quotient compares with 0.9, 1.0 and 1.1 as the exact quotient      *)
(* does, except for 30 / (50 / 1.5), which is 0.8999999999999999 where the   *)
(* exact quotient is 0.9.                                                    *)
RoundsBelow(x, f, interval) == x = 30 /\ f = 15 /\ interval = 50

(* x / (interval / factor) >= c / 10, as the doubles compare *)
RatioAtLeast(x, f, interval, c) ==
    \/ x * f > c * interval
    \/ x * f = c * interval /\ ~RoundsBelow(x, f, interval)

(* progress >= c / 10 with progress = max(hours_progress, days_progress) *)
ProgressAtLeast(hs, ds, f, task, c) ==
    \/ RatioAtLeast(hs, f, MAINTENANCE_SCHEDULES[task].interval_hours, c)
    \/ RatioAtLeast(ds, f, MAINTENANCE_SCHEDULES[task].interval_days, c)

(* whole days of min(remaining_hours / 8, remaining_days), not below 0 *)
DaysUntilDue(hs, ds, f, task) ==
    Max(0, Min((10 * MAINTENANCE_SCHEDULES[task].interval_hours - hs * f) \div (8 * f),
               (10 * MAINTENANCE_SCHEDULES[task].interval_days - ds * f) \div f))

ScheduleAlert(t, task, status, priority, due) ==
    [tractor_id |-> t, task_name |-> task,
     alert_type |-> IF status = "overdue" THEN "routine_overdue" ELSE "routine_scheduled",
     priority |-> priority, status |-> status, due_date |-> due,
     audio_anomaly_score |-> NoScore]

(* variant whose alert threshold is exclusive: progress <= 0.9 gives no alert *)
Classify_exclusive(t, task, hs, ds, f, today) ==
    IF ~ProgressAtLeast(hs, ds, f, task, 9) \/
       10 * ProgressNum(hs, ds, f, task) = 9 * ProgressDen(task) THEN NoAlert
    ELSE IF ProgressAtLeast(hs, ds, f, task, 11)
    THEN ScheduleAlert(t, task, "overdue", "critical", today)
    ELSE IF ProgressAtLeast(hs, ds, f, task, 10)
    THEN ScheduleAlert(t, task, "overdue", MAINTENANCE_SCHEDULES[task].priority, today + 3)
    ELSE ScheduleAlert(t, task, "due", MAINTENANCE_SCHEDULES[task].priority,
                       today + DaysUntilDue(hs, ds, f, task))

(* the threshold ladder of predict_single_task *)
Classify(t, task, hs, ds, f, today) ==
    IF ~ProgressAtLeast(hs, ds, f, task, 9) THEN NoAlert
    ELSE IF ProgressAtLeast(hs, ds, f, task, 11)
    THEN ScheduleAlert(t, task, "overdue", "critical", today)
    ELSE IF ProgressAtLeast(hs, ds, f, task, 10)
    THEN ScheduleAlert(t, task, "overdue", MAINTENANCE_SCHEDULES[task].priority, today + 3)
    ELSE ScheduleAlert(t, task, "due", MAINTENANCE_SCHEDULES[task].priority,
                       today + DaysUntilDue(hs, ds, f, task))

predict_single_task(t, tr, task, today) ==
    Classify(t, task, HoursSince(tr, task), DaysSince(tr, task, today),
             _get_usage_factor(tr.usage_intensity), today)

(* stable sort by (priority_order, due_date), as list.sort does *)
SortKeyLE(a, b) ==
    \/ priority_order[a.priority] < priority_order[b.priority]
    \/ /\ priority_order[a.priority] = priority_order[b.priority]
       /\ a.due_date <= b.due_date

RECURSIVE InsertSorted(_, _)
InsertSorted(sorted, a) ==
    IF sorted = <<>> THEN <<a>>
    ELSE IF SortKeyLE(Head(sorted), a)
         THEN <<Head(sorted)>> \o InsertSorted(Tail(sorted), a)
         ELSE <<a>> \o sorted

RECURSIVE SortAlerts(_)
SortAlerts(s) ==
    IF s = <<>> THEN <<>>
    ELSE InsertSorted(SortAlerts(SubSeq(s, 1, Len(s) - 1)), s[Len(s)])

RECURSIVE PredictTasks(_, _, _, _)
PredictTasks(t, tr, tasks, today) ==
    IF tasks = <<>> THEN <<>>
    ELSE LET a == predict_single_task(t, tr, Head(tasks), today)
         IN  (IF a = NoAlert THEN <<>> ELSE <<a>>)
               \o PredictTasks(t, tr, Tail(tasks), today)

predict_all_maintenance(t, tr, today) ==
    SortAlerts(PredictTasks(t, tr, CatalogTasks, today))


----------------------------------------------------------------------------
(* Unified maintenance engine (UnifiedMaintenanceEngine) *)

(* anomaly scores are kept in tenths: 0.8 -> 8 *)
AudioAlert(t, task, score, today) ==
    [tractor_id |-> t, task_name |-> task, alert_type |-> "audio_anomaly",
     priority |-> IF score > 8 THEN "critical" ELSE IF score > 6 THEN "high" ELSE "medium",
     status |-> "due",
     due_date |-> IF score > 8 THEN today ELSE IF score > 6 THEN today + 1 ELSE today + 3,
     audio_anomaly_score |-> score]

RECURSIVE AudioAlertsFor(_, _, _, _)
AudioAlertsFor(t, names, score, today) ==
    IF names = <<>> THEN <<>>
    ELSE (IF Head(names) \in TaskSet
          THEN <<AudioAlert(t, Head(names), score, today)>> ELSE <<>>)
           \o AudioAlertsFor(t, Tail(names), score, today)

create_audio_triggered_alerts(t, anomaly, today) ==
    AudioAlertsFor(t, Suggested(anomaly.anomaly_type), anomaly.anomaly_score, today)

(* to_list() of a query: the matching documents in insertion (id) order *)
RECURSIVE ToList(_)
ToList(S) ==
    IF S = {} THEN <<>>
    ELSE LET first == CHOOSE d \in S : \A e \in S : d.id <= e.id
         IN  <<first>> \o ToList(S \ {first})

(* variant that also takes the anomalies already handled *)
RecentUnhandled_any(as, t, today) ==
    {a \in as : a.tractor_id = t /\ a.created_at >= today - 30}

RecentUnhandled(as, t, today) ==
    {a \in as : a.tractor_id = t /\ ~a.handled /\ a.created_at >= today - 30}

RECURSIVE AudioAlertsOf(_, _, _)
AudioAlertsOf(t, list, today) ==
    IF list = <<>> THEN <<>>
    ELSE create_audio_triggered_alerts(t, Head(list), today)
           \o AudioAlertsOf(t, Tail(list), today)

IndexOfTask(acc, task) ==
    IF \E i \in 1..Len(acc) : acc[i].task_name = task
    THEN CHOOSE i \in 1..Len(acc) : acc[i].task_name = task
    ELSE 0

(* variant that keeps the first alert of a task whatever its priority *)
DedupStep_keep_first(acc, alert) ==
    IF IndexOfTask(acc, alert.task_name) = 0 THEN Append(acc, alert) ELSE acc

(* one turn of the loop of _deduplicate_alerts: task_alerts is an insertion- *)
(* ordered dict, a replaced value keeps the position of its key              *)
DedupStep(acc, alert) ==
    LET i == IndexOfTask(acc, alert.task_name)
    IN  IF i = 0 THEN Append(acc, alert)
        ELSE IF priority_order[alert.priority] < priority_order[acc[i].priority]
             THEN [acc EXCEPT ![i] = alert]
             ELSE acc

RECURSIVE DedupFrom(_, _)
DedupFrom(acc, list) ==
    IF list = <<>> THEN acc
    ELSE DedupFrom(DedupStep(acc, Head(list)), Tail(list))

RECURSIVE ReverseSeq(_)
ReverseSeq(list) ==
    IF list = <<>> THEN <<>> ELSE Append(ReverseSeq(Tail(list)), Head(list))

(* variant that returns the kept alerts in reverse order *)
_deduplicate_alerts_reversed(list) == ReverseSeq(DedupFrom(<<>>, list))

_deduplicate_alerts(list) == DedupFrom(<<>>, list)

generate_all_alerts(t, tr, as, today) ==
    _deduplicate_alerts(
        predict_all_maintenance(t, tr, today)
          \o AudioAlertsOf(t, ToList(RecentUnhandled(as, t, today)), today))


(* the loop of _calculate_health_score over the alerts *)
AlertPenalty(a) ==
    IF a.status # "overdue" THEN 0
    ELSE IF a.priority = "critical" THEN 20
    ELSE IF a.priority = "high" THEN 10
    ELSE 5

RECURSIVE PenaltySum(_)
PenaltySum(list) ==
    IF list = <<>> THEN 0 ELSE AlertPenalty(Head(list)) + PenaltySum(Tail(list))

(* UnifiedMaintenanceEngine._calculate_health_score of the application: *)
(* the alerts only                                                      *)
_calculate_health_score(list) == Max(100 - PenaltySum(list), 0)

(* _calculate_health_score of the standalone rule engine: the alerts and *)
(* the anomalies of the last 7 days                                      *)
_calculate_health_score_rule_based(list, anomaly_count) ==
    Max(100 - PenaltySum(list) - Min(anomaly_count * 5, 30), 0)

----------------------------------------------------------------------------
(* Score fusion (BaselineService.combine_scores) *)

(* deviations and classifier scores are kept in hundredths (2.0 sigma -> 200), *)
(* weights in tenths (0.6 -> 6)                                                *)
THRESHOLDS == [normal |-> 200, watch |-> 250, warning |-> 300, critical |-> 300]

Recommendation ==
    [normal |-> "No action needed - operating normally",
     watch |-> "Monitor closely - slight deviation detected",
     warning |-> "Schedule inspection - sound differs from baseline",
     critical |-> "Urgent: Schedule maintenance - significant deviation detected"]

(* variant whose bands include their upper bound *)
TrendStatusOf_inclusive_above(score) ==
    IF score <= THRESHOLDS.normal THEN "normal"
    ELSE IF score <= THRESHOLDS.watch THEN "watch"
    ELSE IF score <= THRESHOLDS.warning THEN "warning"
    ELSE "critical"

(* the if/elif chain of combine_scores *)
TrendStatusOf(score) ==
    IF score < THRESHOLDS.normal THEN "normal"
    ELSE IF score < THRESHOLDS.watch THEN "watch"
    ELSE IF score < THRESHOLDS.warning THEN "warning"
    ELSE "critical"

(* combined_score in units of 1/3000: *)
(* resnet_weight * resnet_score + baseline_weight * min(1.0, deviation / 3.0) *)
CombinedScore(resnet_score, deviation_score, resnet_weight, baseline_weight) ==
    3 * resnet_weight * resnet_score + baseline_weight * Min(300, deviation_score)

(* variant that classifies by the combined score, scaled back to sigmas *)
combine_scores_on_combined(resnet_score, deviation_score, resnet_weight, baseline_weight) ==
    LET combined == CombinedScore(resnet_score, deviation_score,
                                  resnet_weight, baseline_weight)
        status == TrendStatusOf(combined \div 10)
    IN  [combined_score |-> combined, status |-> status,
         deviation_score |-> deviation_score, resnet_score |-> resnet_score,
         recommendation |-> Recommendation[status]]

combine_scores(resnet_score, deviation_score, resnet_weight, baseline_weight) ==
    LET status == TrendStatusOf(deviation_score)
    IN  [combined_score |-> CombinedScore(resnet_score, deviation_score,
                                          resnet_weight, baseline_weight),
         status |-> status,
         deviation_score |-> deviation_score, resnet_score |-> resnet_score,
         recommendation |-> Recommendation[status]]

----------------------------------------------------------------------------
(* Audio prediction (MLService) and the upload route *)

(* probabilities, confidences and scores are kept in hundredths (0.9 -> 90) *)
NoType == "None"
Raised == [none |-> "raised"]

(* variant whose bands include their lower bound *)
AnomalyTypeOf_inclusive(probability) ==
    IF probability < 50 THEN NoType
    ELSE IF probability >= 90 THEN "critical_anomaly"
    ELSE IF probability >= 75 THEN "high_vibration"
    ELSE IF probability >= 60 THEN "unusual_noise"
    ELSE "minor_anomaly"

(* the if/elif chain of predict_audio *)
AnomalyTypeOf(probability) ==
    IF probability < 50 THEN NoType
    ELSE IF probability > 90 THEN "critical_anomaly"
    ELSE IF probability > 75 THEN "high_vibration"
    ELSE IF probability > 60 THEN "unusual_noise"
    ELSE "minor_anomaly"

(* librosa.load raises on "bad": the except branch returns a default *)
_fallback_prediction(file, indicators) ==
    IF file # "ok"
    THEN [prediction_class |-> "Unknown", confidence |-> 0, anomaly_score |-> 50,
          anomaly_type |-> NoType, ml_model |-> "Error_Fallback"]
    ELSE [prediction_class |-> IF indicators >= 2 THEN "Abnormal" ELSE "Normal",
          confidence |-> 60,
          anomaly_score |-> Min(30 + indicators * 20, 90),
          anomaly_type |-> IF indicators < 2 THEN NoType
                           ELSE IF indicators >= 3 THEN "high_vibration"
                           ELSE "minor_anomaly",
          ml_model |-> "Fallback_Basic_Analysis"]

(* loaded: self.model is not None; extract_mfcc_features raises on "bad" and *)
(* predict_audio re-raises                                                   *)
predict_audio(loaded, file, probability, indicators) ==
    IF ~loaded THEN _fallback_prediction(file, indicators)
    ELSE IF file # "ok" THEN Raised
    ELSE [prediction_class |-> IF probability > 50 THEN "Abnormal" ELSE "Normal",
          confidence |-> IF probability > 50 THEN probability ELSE 100 - probability,
          anomaly_score |-> probability,
          anomaly_type |-> AnomalyTypeOf(probability),
          ml_model |-> "ResNet_Transfer_Learning"]

Lower(class) ==
    IF class = "Normal" THEN "normal"
    ELSE IF class = "Abnormal" THEN "abnormal"
    ELSE "unknown"

(* the required fields of the AudioPrediction document (app/models) that the *)
(* model follows; the constructor raises when one of them is not given       *)
AudioPredictionRequired == {"tractor_id", "prediction_class", "confidence", "model_used"}

Validates(kwargs, required) == required \subseteq DOMAIN kwargs

(* the baseline comparison of upload_audio: NoDoc when there is no active *)
(* baseline or when extract_mfcc_features raises                          *)
BaselineComparison(bs, t, file, result, deviation) ==
    IF get_active_baseline(bs, t) = {} \/ file # "ok" THEN NoDoc
    ELSE [deviation_info |-> [average_deviation |-> deviation],
          combined_analysis |-> combine_scores(result.anomaly_score, deviation, 6, 4),
          baseline_id |-> (CHOOSE b \in get_active_baseline(bs, t) : TRUE).id]

(* the keyword arguments of AudioPrediction(...) in upload_audio *)
AudioPredictionArgs(t, result, comparison) ==
    LET final_class == IF comparison # NoDoc THEN comparison.combined_analysis.status
                       ELSE Lower(result.prediction_class)
    IN  [tractor_id |-> t,
         prediction_class |-> IF final_class = "normal" THEN "normal" ELSE "abnormal",
         confidence |-> IF comparison # NoDoc
                        THEN comparison.combined_analysis.combined_score
                        ELSE result.confidence,
         ml_model |-> IF comparison # NoDoc THEN "ResNet_with_Baseline"
                      ELSE "ResNet_Transfer_Learning"]

(* the AudioTrend(...) of upload_audio *)
AudioTrendOf(t, result, comparison) ==
    [tractor_id |-> t,
     resnet_score |-> result.anomaly_score,
     deviation_score |-> comparison.deviation_info.average_deviation,
     combined_score |-> comparison.combined_analysis.combined_score,
     status |-> comparison.combined_analysis.status,
     anomaly_type |-> result.anomaly_type,
     baseline_id |-> comparison.baseline_id]

(* upload_audio: the outcome of the request, with what it computed and what *)
(* it wrote to the audio_predictions and audio_trends collections           *)
upload_audio(ts, bs, t, file, loaded, probability, indicators, deviation) ==
    LET result == predict_audio(loaded, file, probability, indicators)
        comparison == IF result = Raised THEN NoDoc
                      ELSE BaselineComparison(bs, t, file, result, deviation)
        args == IF result = Raised THEN NoDoc
                ELSE AudioPredictionArgs(t, result, comparison)
        inserted == result # Raised /\ Validates(args, AudioPredictionRequired)
    IN  IF ts[t] = NoTractor
        THEN [status |-> "not_found", result |-> NoDoc, comparison |-> NoDoc,
              prediction |-> NoDoc, stored |-> NoDoc, trend |-> NoDoc]
        ELSE [status |-> IF inserted THEN "ok" ELSE "error",
              result |-> result,
              comparison |-> comparison,
              prediction |-> args,
              stored |-> IF inserted THEN args ELSE NoDoc,
              trend |-> IF inserted /\ comparison # NoDoc
                        THEN AudioTrendOf(t, result, comparison) ELSE NoDoc]

----------------------------------------------------------------------------
(* Request inputs *)

HourInputs == {0, 100, 225, 260}
CreateHours == {0, 100}
UpdateHours == {0, 260}
LogHours == {100, 260}
DayInputs == {0, 200}
PurchaseDates == {-200, 0}
UsageInputs == {"moderate", "heavy"}
ScoreInputs == {5, 9}
NoHours == -1          \* engine_hours: None of TractorUpdate
NoUsage == "unchanged" \* usage_intensity: None of TractorUpdate

UnchangedBaseline == UNCHANGED <<baselines, metadata>>

----------------------------------------------------------------------------
(* Startup and environment *)

(* Database.seed_maintenance_schedules: inserts every schedule that is missing *)
seed_maintenance_schedules ==
    /\ schedules # Models
    /\ schedules' = Models
    /\ ret' = [op |-> "seed", status |-> "ok"]
    /\ UNCHANGED <<tractors, alerts, usage_logs, records, anomalies, next_id, now, calls>>
    /\ UnchangedBaseline /\ UnchangedPure

(* time passes between requests *)
Tick ==
    /\ \E d \in DayInputs : d > now /\ now' = d
    /\ UNCHANGED <<tractors, schedules, alerts, usage_logs, records, anomalies,
                   next_id, ret, calls>>
    /\ UnchangedBaseline /\ UnchangedPure

(* anomalies are never deleted: they are numbered in insertion order *)
NextIdOf(S) == Cardinality(S) + 1

(* an Anomaly document written to the store *)
record_anomaly(t, type, score, handled) ==
    /\ Cardinality(anomalies) < MaxAnomalies
    /\ anomalies' = anomalies \cup
         {[id |-> NextIdOf(anomalies), tractor_id |-> t, anomaly_type |-> type,
           anomaly_score |-> score, handled |-> handled, created_at |-> now]}
    /\ ret' = [op |-> "anomaly", status |-> "ok", tractor |-> t]
    /\ UNCHANGED <<tractors, schedules, alerts, usage_logs, records, next_id, now, calls>>
    /\ UnchangedBaseline /\ UnchangedPure

----------------------------------------------------------------------------
(* Tractor routes *)

(* variant that starts every task at 0 engine hours *)
InitialMaintenance_zero(model, seeded, pdate, hours) ==
    [k \in TaskNames |->
        IF model \in seeded /\ k \in TaskSet
        THEN [date |-> pdate, engine_hours |-> 0]
        ELSE NoRecord]

InitialMaintenance(model, seeded, pdate, hours) ==
    [k \in TaskNames |->
        IF model \in seeded /\ k \in TaskSet
        THEN [date |-> pdate, engine_hours |-> hours]
        ELSE NoRecord]

create_tractor(t, model, pdate, hours, usage) ==
    /\ IF tractors[t] # NoTractor
       THEN /\ ret' = [op |-> "create_tractor", status |-> "exists", tractor |-> t]
            /\ UNCHANGED tractors
       ELSE /\ tractors' = [tractors EXCEPT ![t] =
                 [model |-> model, purchase_date |-> pdate, engine_hours |-> hours,
                  usage_intensity |-> usage, baseline_status |-> "pending",
                  last_maintenance |-> InitialMaintenance(model, schedules, pdate, hours)]]
            /\ ret' = [op |-> "create_tractor", status |-> "ok", tractor |-> t]
    /\ UNCHANGED <<schedules, alerts, usage_logs, records, anomalies, next_id, now, calls>>
    /\ UnchangedBaseline /\ UnchangedPure

(* variant without the lower-value check *)
HoursRejected_never(new_hours, current) == FALSE

HoursRejected(new_hours, current) == new_hours < current

update_tractor(t, hours, usage) ==
    /\ IF tractors[t] = NoTractor
       THEN /\ ret' = [op |-> "update_tractor", status |-> "not_found", tractor |-> t]
            /\ UNCHANGED tractors
       ELSE IF hours # NoHours /\ HoursRejected(hours, tractors[t].engine_hours)
       THEN /\ ret' = [op |-> "update_tractor", status |-> "hours_decreased", tractor |-> t]
            /\ UNCHANGED tractors
       ELSE /\ tractors' = [tractors EXCEPT
                 ![t].engine_hours = IF hours = NoHours THEN @ ELSE hours,
                 ![t].usage_intensity = IF usage = NoUsage THEN @ ELSE usage]
            /\ ret' = [op |-> "update_tractor", status |-> "ok", tractor |-> t]
    /\ UNCHANGED <<schedules, alerts, usage_logs, records, anomalies, next_id, now, calls>>
    /\ UnchangedBaseline /\ UnchangedPure

(* Tractor.update_engine_hours of the standalone rule engine: returns False *)
(* and keeps the hours when the new value is lower                          *)
update_engine_hours(t, new_hours) ==
    /\ tractors[t] # NoTractor
    /\ IF HoursRejected(new_hours, tractors[t].engine_hours)
       THEN /\ ret' = [op |-> "update_engine_hours", status |-> "hours_decreased",
                       tractor |-> t]
            /\ UNCHANGED tractors
       ELSE /\ tractors' = [tractors EXCEPT ![t].engine_hours = new_hours]
            /\ ret' = [op |-> "update_engine_hours", status |-> "ok", tractor |-> t]
    /\ UNCHANGED <<schedules, alerts, usage_logs, records, anomalies, next_id, now, calls>>
    /\ UnchangedBaseline /\ UnchangedPure

----------------------------------------------------------------------------
(* Usage route *)

Unresolved(as, t, task) ==
    {a \in BagToSet(as) :
        a.tractor_id = t /\ a.task_name = task /\ a.status # "completed"}

One(doc) == SetToBag({doc})

StoredAlert(a) ==
    [tractor_id |-> a.tractor_id, task_name |-> a.task_name,
     alert_type |-> a.alert_type, priority |-> a.priority, status |-> a.status,
     due_date |-> a.due_date, audio_anomaly_score |-> a.audio_anomaly_score,
     resolved_at |-> NoTime]

(* the loop of log_daily_usage over the generated alerts: find_one, then insert *)
RECURSIVE PersistAlerts(_, _)
PersistAlerts(store, list) ==
    IF list = <<>> THEN store
    ELSE IF Unresolved(store, Head(list).tractor_id, Head(list).task_name) # {}
         THEN PersistAlerts(store, Tail(list))
         ELSE PersistAlerts(store (+) One(StoredAlert(Head(list))), Tail(list))

(* load_schedule raises when the model has no schedule; log_daily_usage catches it *)
AlertsAfterUsage(t, tr, today) ==
    IF tr.model \in schedules THEN generate_all_alerts(t, tr, anomalies, today)
    ELSE <<>>

log_daily_usage(t, end_hours) ==
    /\ IF tractors[t] = NoTractor
       THEN /\ ret' = [op |-> "log_usage", status |-> "not_found", tractor |-> t]
            /\ UNCHANGED <<tractors, usage_logs, alerts>>
       ELSE IF HoursRejected(end_hours, tractors[t].engine_hours)
       THEN /\ ret' = [op |-> "log_usage", status |-> "hours_decreased", tractor |-> t]
            /\ UNCHANGED <<tractors, usage_logs, alerts>>
       ELSE LET tr == [tractors[t] EXCEPT !.engine_hours = end_hours]
                stored == PersistAlerts(alerts, AlertsAfterUsage(t, tr, now))
            IN  /\ BagCardinality(usage_logs) < MaxLogs
                /\ BagCardinality(stored) <= MaxAlerts
                /\ usage_logs' = usage_logs (+)
                     One([tractor_id |-> t, date |-> now,
                          start_hours |-> tractors[t].engine_hours,
                          end_hours |-> end_hours,
                          hours_used |-> end_hours - tractors[t].engine_hours])
                /\ tractors' = [tractors EXCEPT ![t] = tr]
                /\ alerts' = stored
                /\ ret' = [op |-> "log_usage", status |-> "ok", tractor |-> t]
    /\ UNCHANGED <<schedules, records, anomalies, next_id, now, calls>>
    /\ UnchangedBaseline /\ UnchangedPure

----------------------------------------------------------------------------
(* Maintenance routes *)

Completed(a, today) == [a EXCEPT !.status = "completed", !.resolved_at = today]

(* variant that completes one open alert only *)
CompleteAlerts_first_only(as, t, task, today) ==
    IF Unresolved(as, t, task) = {} THEN as
    ELSE LET first == CHOOSE a \in Unresolved(as, t, task) : TRUE
         IN  (as (-) One(first)) (+) One(Completed(first, today))

CompleteAlerts(as, t, task, today) ==
    LET Done(a) == IF a \in Unresolved(as, t, task) THEN Completed(a, today) ELSE a
    IN  BagOfAll(Done, as)

record_maintenance(t, task, cdate, chours) ==
    /\ IF tractors[t] = NoTractor
       THEN /\ ret' = [op |-> "record_maintenance", status |-> "not_found", tractor |-> t]
            /\ UNCHANGED <<tractors, records, alerts>>
       ELSE /\ BagCardinality(records) < MaxRecords
            /\ records' = records (+)
                 One([tractor_id |-> t, task_name |-> task,
                      completion_date |-> cdate, completion_hours |-> chours])
            /\ tractors' = [tractors EXCEPT ![t].last_maintenance[task] =
                              [date |-> cdate, engine_hours |-> chours]]
            /\ alerts' = CompleteAlerts(alerts, t, task, now)
            /\ ret' = [op |-> "record_maintenance", status |-> "ok", tractor |-> t,
                       task |-> task, date |-> cdate, hours |-> chours]
    /\ UNCHANGED <<schedules, usage_logs, anomalies, next_id, now, calls>>
    /\ UnchangedBaseline /\ UnchangedPure

(* create_maintenance_task builds alert_type_map from AlertType.SCHEDULED and   *)
(* AlertType.URGENT, which AlertType does not define: the handler raises before *)
(* it builds or inserts the alert                                               *)
create_maintenance_task(t, task, priority) ==
    /\ IF tractors[t] = NoTractor
       THEN ret' = [op |-> "create_task", status |-> "not_found", tractor |-> t]
       ELSE ret' = [op |-> "create_task", status |-> "error", tractor |-> t]
    /\ UNCHANGED <<tractors, schedules, alerts, usage_logs, records, anomalies,
                   next_id, now, calls>>
    /\ UnchangedBaseline /\ UnchangedPure

create_test_alert(t) ==
    /\ IF tractors[t] = NoTractor
       THEN /\ ret' = [op |-> "test_alert", status |-> "not_found", tractor |-> t]
            /\ UNCHANGED alerts
       ELSE /\ BagCardinality(alerts) < MaxAlerts
            /\ alerts' = alerts (+)
                 One([tractor_id |-> t, task_name |-> TestTask,
                      alert_type |-> "audio_anomaly", priority |-> "high",
                      status |-> "scheduled", due_date |-> now + 1,
                      audio_anomaly_score |-> 9, resolved_at |-> NoTime])
            /\ ret' = [op |-> "test_alert", status |-> "ok", tractor |-> t]
    /\ UNCHANGED <<tractors, schedules, usage_logs, records, anomalies, next_id, now, calls>>
    /\ UnchangedBaseline /\ UnchangedPure

----------------------------------------------------------------------------
(* Overlapping requests.  A request handler runs up to its next await, where *)
(* another request may run; calls[p] holds the position and the local        *)
(* variables of the request that process p serves.                           *)

(* document.save(): the stored document with the id of doc becomes doc *)
SaveDoc(S, doc) == {d \in S : d.id # doc.id} \cup {doc}

Finish(p, op, st, t) ==
    /\ calls' = [calls EXCEPT ![p] = Idle]
    /\ ret' = [op |-> op, status |-> st, tractor |-> t]

(* POST /{tractor_id}/finalize: Tractor.find_one *)
finalize_find_tractor(p, t) ==
    /\ calls[p] = Idle
    /\ tractors[t] # NoTractor
    /\ calls' = [calls EXCEPT ![p] =
                   [pc |-> "find_metadata", tractor |-> t, doc |-> tractors[t]]]
    /\ UNCHANGED <<tractors, baselines, metadata, next_id, ret>>
    /\ UnchangedMaint /\ UnchangedPure

(* finalize_baseline: BaselineMetadata.find_one, the sample checks and the *)
(* feature extraction                                                      *)
finalize_find_metadata(p) ==
    /\ calls[p].pc = "find_metadata"
    /\ \E m \in FindOne(Establishing(metadata, calls[p].tractor)) :
         IF m = NoDoc
         THEN Finish(p, "finalize", "no_collection", calls[p].tractor)
         ELSE IF m.collected_samples < 3
         THEN Finish(p, "finalize", "need_samples", calls[p].tractor)
         ELSE IF ExtractAll(m.sample_files) < 3
         THEN Finish(p, "finalize", "need_features", calls[p].tractor)
         ELSE /\ calls' = [calls EXCEPT ![p] =
                   [pc |-> "find_active", tractor |-> calls[p].tractor,
                    doc |-> calls[p].doc, meta |-> m]]
              /\ UNCHANGED ret
    /\ UNCHANGED <<tractors, baselines, metadata, next_id>>
    /\ UnchangedMaint /\ UnchangedPure

(* _archive_existing_baseline: TractorBaseline.find_one({is_active: True}) *)
finalize_find_active(p) ==
    /\ calls[p].pc = "find_active"
    /\ \E existing \in FindOne(ActiveOf(baselines, calls[p].tractor)) :
         calls' = [calls EXCEPT ![p] =
                     [pc |-> IF existing = NoDoc THEN "insert" ELSE "archive",
                      tractor |-> calls[p].tractor, doc |-> calls[p].doc,
                      meta |-> calls[p].meta, existing |-> existing]]
    /\ UNCHANGED <<tractors, baselines, metadata, next_id, ret>>
    /\ UnchangedMaint /\ UnchangedPure

(* _archive_existing_baseline: existing.save() *)
finalize_archive(p) ==
    /\ calls[p].pc = "archive"
    /\ baselines' = SaveDoc(baselines,
                       [calls[p].existing EXCEPT !.is_active = FALSE,
                                                 !.status = "archived"])
    /\ calls' = [calls EXCEPT ![p].pc = "insert"]
    /\ UNCHANGED <<tractors, metadata, next_id, ret>>
    /\ UnchangedMaint /\ UnchangedPure

(* finalize_baseline: baseline.insert() *)
finalize_insert(p) ==
    /\ calls[p].pc = "insert"
    /\ next_id <= MaxDocs
    /\ baselines' = baselines \cup
          {NewBaseline(calls[p].tractor, next_id, calls[p].meta.sample_files)}
    /\ next_id' = next_id + 1
    /\ calls' = [calls EXCEPT ![p].pc = "save_metadata"]
    /\ UNCHANGED <<tractors, metadata, ret>>
    /\ UnchangedMaint /\ UnchangedPure

(* finalize_baseline: metadata.save() with status ACTIVE *)
finalize_save_metadata(p) ==
    /\ calls[p].pc = "save_metadata"
    /\ metadata' = SaveDoc(metadata, [calls[p].meta EXCEPT !.status = "active"])
    /\ calls' = [calls EXCEPT ![p].pc = "save_status"]
    /\ UNCHANGED <<tractors, baselines, next_id, ret>>
    /\ UnchangedMaint /\ UnchangedPure

(* the route: tractor.baseline_status = "completed"; tractor.save() *)
finalize_save_tractor(p) ==
    /\ calls[p].pc = "save_status"
    /\ tractors' = [tractors EXCEPT ![calls[p].tractor] =
                      [calls[p].doc EXCEPT !.baseline_status = "completed"]]
    /\ Finish(p, "finalize", "ok", calls[p].tractor)
    /\ UNCHANGED <<baselines, metadata, next_id>>
    /\ UnchangedMaint /\ UnchangedPure

(* POST /{tractor_id}/log: Tractor.find_one and the validation of end_hours *)
usage_find_tractor(p, t, end_hours) ==
    /\ calls[p] = Idle
    /\ tractors[t] # NoTractor
    /\ IF HoursRejected(end_hours, tractors[t].engine_hours)
       THEN Finish(p, "log_usage", "hours_decreased", t)
       ELSE /\ calls' = [calls EXCEPT ![p] =
                 [pc |-> "insert_usage", tractor |-> t, doc |-> tractors[t],
                  end_hours |-> end_hours]]
            /\ UNCHANGED ret
    /\ UNCHANGED <<tractors, schedules, alerts, usage_logs, records, anomalies,
                   next_id, now>>
    /\ UnchangedBaseline /\ UnchangedPure

(* daily_usage.insert() *)
usage_insert(p) ==
    /\ calls[p].pc = "insert_usage"
    /\ BagCardinality(usage_logs) < MaxLogs
    /\ usage_logs' = usage_logs (+)
         One([tractor_id |-> calls[p].tractor, date |-> now,
              start_hours |-> calls[p].doc.engine_hours,
              end_hours |-> calls[p].end_hours,
              hours_used |-> calls[p].end_hours - calls[p].doc.engine_hours])
    /\ calls' = [calls EXCEPT ![p].pc = "save_hours"]
    /\ UNCHANGED <<tractors, schedules, alerts, records, anomalies, next_id, now, ret>>
    /\ UnchangedBaseline /\ UnchangedPure

(* tractor.engine_hours = end_hours; tractor.save() *)
usage_save_tractor(p) ==
    /\ calls[p].pc = "save_hours"
    /\ LET tr == [calls[p].doc EXCEPT !.engine_hours = calls[p].end_hours]
       IN  /\ tractors' = [tractors EXCEPT ![calls[p].tractor] = tr]
           /\ calls' = [calls EXCEPT ![p] =
                          [pc |-> "generate", tractor |-> calls[p].tractor, doc |-> tr]]
    /\ UNCHANGED <<schedules, alerts, usage_logs, records, anomalies, next_id, now, ret>>
    /\ UnchangedBaseline /\ UnchangedPure

(* generate_all_alerts on the handler's tractor document *)
usage_generate(p) ==
    /\ calls[p].pc = "generate"
    /\ LET list == AlertsAfterUsage(calls[p].tractor, calls[p].doc, now)
       IN  IF list = <<>>
           THEN Finish(p, "log_usage", "ok", calls[p].tractor)
           ELSE /\ calls' = [calls EXCEPT ![p] =
                     [pc |-> "find_alert", tractor |-> calls[p].tractor,
                      pending |-> list]]
                /\ UNCHANGED ret
    /\ UNCHANGED <<tractors, schedules, alerts, usage_logs, records, anomalies,
                   next_id, now>>
    /\ UnchangedBaseline /\ UnchangedPure

AfterAlert(p) ==
    IF Tail(calls[p].pending) = <<>>
    THEN Finish(p, "log_usage", "ok", calls[p].tractor)
    ELSE /\ calls' = [calls EXCEPT ![p] =
              [pc |-> "find_alert", tractor |-> calls[p].tractor,
               pending |-> Tail(calls[p].pending)]]
         /\ UNCHANGED ret

(* MaintenanceAlert.find_one(tractor_id, task_name, status != COMPLETED) *)
usage_find_alert(p) ==
    /\ calls[p].pc = "find_alert"
    /\ IF Unresolved(alerts, calls[p].tractor, Head(calls[p].pending).task_name) # {}
       THEN AfterAlert(p)
       ELSE /\ calls' = [calls EXCEPT ![p].pc = "insert_alert"]
            /\ UNCHANGED ret
    /\ UNCHANGED <<tractors, schedules, alerts, usage_logs, records, anomalies,
                   next_id, now>>
    /\ UnchangedBaseline /\ UnchangedPure

(* alert.insert() *)
usage_insert_alert(p) ==
    /\ calls[p].pc = "insert_alert"
    /\ BagCardinality(alerts) < MaxAlerts
    /\ alerts' = alerts (+) One(StoredAlert(Head(calls[p].pending)))
    /\ AfterAlert(p)
    /\ UNCHANGED <<tractors, schedules, usage_logs, records, anomalies, next_id, now>>
    /\ UnchangedBaseline /\ UnchangedPure

(* PUT /{tractor_id}: Tractor.find_one and the check of engine_hours *)
update_find_tractor(p, t, hours) ==
    /\ calls[p] = Idle
    /\ tractors[t] # NoTractor
    /\ IF HoursRejected(hours, tractors[t].engine_hours)
       THEN Finish(p, "update_tractor", "hours_decreased", t)
       ELSE /\ calls' = [calls EXCEPT ![p] =
                 [pc |-> "update_save", tractor |-> t,
                  doc |-> [tractors[t] EXCEPT !.engine_hours = hours]]]
            /\ UNCHANGED ret
    /\ UNCHANGED <<tractors, schedules, alerts, usage_logs, records, anomalies,
                   next_id, now>>
    /\ UnchangedBaseline /\ UnchangedPure

(* tractor.save() of update_tractor *)
update_save_tractor(p) ==
    /\ calls[p].pc = "update_save"
    /\ tractors' = [tractors EXCEPT ![calls[p].tractor] = calls[p].doc]
    /\ Finish(p, "update_tractor", "ok", calls[p].tractor)
    /\ UNCHANGED <<schedules, alerts, usage_logs, records, anomalies, next_id, now>>
    /\ UnchangedBaseline /\ UnchangedPure

----------------------------------------------------------------------------
(* Specifications *)

Init ==
    /\ tractors = [t \in Tractors |-> NoTractor]
    /\ schedules = {}
    /\ baselines = {}
    /\ metadata = {}
    /\ alerts = EmptyBag
    /\ usage_logs = EmptyBag
    /\ records = EmptyBag
    /\ anomalies = {}
    /\ next_id = 1
    /\ now = 0
    /\ ret = NoRet
    /\ calls = [p \in Procs |-> Idle]
    /\ pin = NoDoc
    /\ pout = NoDoc

(* Sequential requests on tractors and their engine hours *)
Next ==
    \/ seed_maintenance_schedules
    \/ \E t \in Tractors, m \in Models, h \in CreateHours :
         create_tractor(t, m, 0, h, "moderate")
    \/ \E t \in Tractors, h \in UpdateHours \cup {NoHours} :
         update_tractor(t, h, NoUsage)
    \/ \E t \in Tractors, h \in UpdateHours : update_engine_hours(t, h)
    \/ \E t \in Tractors, h \in LogHours : log_daily_usage(t, h)

Spec == Init /\ [][Next]_vars

(* Sequential requests on the alert store *)
NextAlerts ==
    \/ seed_maintenance_schedules
    \/ \E t \in Tractors, m \in Models : create_tractor(t, m, 0, 0, "moderate")
    \/ \E t \in Tractors : log_daily_usage(t, 260)
    \/ \E t \in Tractors, k \in {"engine_oil_change", TestTask} :
         record_maintenance(t, k, now, 260)
    \/ \E t \in Tractors : create_maintenance_task(t, "engine_oil_change", "HIGH")
    \/ \E t \in Tractors : create_test_alert(t)

SpecAlerts == Init /\ [][NextAlerts]_vars

(* Sequential requests of the baseline routes *)
NextBaseline ==
    \/ \E t \in Tractors, m \in Models : create_tractor(t, m, 0, 0, "moderate")
    \/ \E t \in Tractors, n \in TargetSamples : start_baseline_collection(t, n)
    \/ \E t \in Tractors : add_baseline_sample(t, "ok")
    \/ \E t \in Tractors : finalize_baseline(t)
    \/ \E t \in Tractors : delete_baseline(t)
    \/ \E t \in Tractors, bid \in 1..MaxDocs : delete_specific_baseline(t, bid)

SpecBaseline == Init /\ [][NextBaseline]_vars

(* One tractor's collection session, with samples that yield features and *)
(* samples that do not                                                     *)
NextSession ==
    \/ \E m \in Models : create_tractor("T1", m, 0, 0, "moderate")
    \/ \E n \in TargetSamples : start_baseline_collection("T1", n)
    \/ \E f \in AudioFiles : add_baseline_sample("T1", f)
    \/ finalize_baseline("T1")

SpecSession == Init /\ [][NextSession]_vars

(* Two overlapping finalize requests for one tractor *)
NextFinalizeRace ==
    \/ \E m \in Models : create_tractor("T1", m, 0, 0, "moderate")
    \/ \E n \in TargetSamples : start_baseline_collection("T1", n)
    \/ add_baseline_sample("T1", "ok")
    \/ \E p \in Procs : finalize_find_tractor(p, "T1")
    \/ \E p \in Procs : finalize_find_metadata(p)
    \/ \E p \in Procs : finalize_find_active(p)
    \/ \E p \in Procs : finalize_archive(p)
    \/ \E p \in Procs : finalize_insert(p)
    \/ \E p \in Procs : finalize_save_metadata(p)
    \/ \E p \in Procs : finalize_save_tractor(p)

SpecFinalizeRace == Init /\ [][NextFinalizeRace]_vars

(* Two overlapping usage-log requests for one tractor *)
NextAlertRace ==
    \/ seed_maintenance_schedules
    \/ \E m \in Models : create_tractor("T1", m, 0, 0, "moderate")
    \/ \E p \in Procs : usage_find_tractor(p, "T1", 260)
    \/ \E p \in Procs : usage_insert(p)
    \/ \E p \in Procs : usage_save_tractor(p)
    \/ \E p \in Procs : usage_generate(p)
    \/ \E p \in Procs : usage_find_alert(p)
    \/ \E p \in Procs : usage_insert_alert(p)

SpecAlertRace == Init /\ [][NextAlertRace]_vars

(* Two overlapping engine-hours writes for one tractor *)
NextHoursRace ==
    \/ \E m \in Models, h \in CreateHours : create_tractor("T1", m, 0, h, "moderate")
    \/ \E p \in Procs, h \in LogHours : usage_find_tractor(p, "T1", h)
    \/ \E p \in Procs : usage_insert(p)
    \/ \E p \in Procs : usage_save_tractor(p)
    \/ \E p \in Procs : usage_generate(p)
    \/ \E p \in Procs, h \in UpdateHours : update_find_tractor(p, "T1", h)
    \/ \E p \in Procs : update_save_tractor(p)

SpecHoursRace == Init /\ [][NextHoursRace]_vars

(* One tractor's service history: records with any completion date up to *)
(* today and any completion hours                                         *)
NextService ==
    \/ seed_maintenance_schedules
    \/ \E m \in Models : create_tractor("T1", m, 0, 0, "moderate")
    \/ \E h \in LogHours : log_daily_usage("T1", h)
    \/ \E h \in UpdateHours : update_tractor("T1", h, NoUsage)
    \/ \E k \in TaskSet, d \in DayInputs, h \in LogHours :
         d <= now /\ record_maintenance("T1", k, d, h)
    \/ Tick

SpecService == Init /\ [][NextService]_vars

(* One tractor with an anomaly in the store: usage logs and services *)
NextRecreate ==
    \/ seed_maintenance_schedules
    \/ \E m \in Models : create_tractor("T1", m, 0, 0, "moderate")
    \/ \E s \in ScoreInputs : record_anomaly("T1", "high_vibration", s, FALSE)
    \/ \E h \in LogHours : log_daily_usage("T1", h)
    \/ \E k \in TaskSet, h \in LogHours : record_maintenance("T1", k, now, h)

SpecRecreate == Init /\ [][NextRecreate]_vars

(* One tractor over time: registration, usage, service, passing days *)
NextSchedule ==
    \/ seed_maintenance_schedules
    \/ \E m \in Models, d \in PurchaseDates, h \in CreateHours, u \in UsageInputs :
         create_tractor("T1", m, d, h, u)
    \/ \E h \in LogHours : log_daily_usage("T1", h)
    \/ \E k \in TaskSet : record_maintenance("T1", k, now, 260)
    \/ Tick

SpecSchedule == Init /\ [][NextSchedule]_vars

(* The schedule predictor as a function: a tractor document and a task are *)
(* drawn, predict applies predict_single_task to them                      *)
PredictHours ==
    (0..60) \cup {100, 149, 150, 151, 166, 167, 183, 184, 187, 188, 208, 209,
                  224, 225, 226, 229, 230, 249, 250, 251, 260, 274, 275, 276,
                  281, 282, 312, 313, 343, 344}
PredictDays ==
    {0, 17, 18, 19, 20, 21, 22, 23, 24, 25, 26, 27, 28, 29, 30, 32, 33, 34, 37, 38,
     41, 42, 107, 108, 119, 120, 131, 132, 134, 135, 149, 150, 161, 162, 163,
     164, 165, 179, 180, 181, 197, 198, 199, 200, 202, 203, 224, 225, 247, 248}
PredictLast == {NoRecord, [date |-> -17, engine_hours |-> 30]}

PredictTractor(usage, pdate, hours, last) ==
    [model |-> "MF_240", purchase_date |-> pdate, engine_hours |-> hours,
     usage_intensity |-> usage, baseline_status |-> "pending",
     last_maintenance |-> [k \in TaskNames |-> last]]

InitPredict ==
    /\ tractors = [t \in Tractors |-> NoTractor]
    /\ schedules = Models
    /\ baselines = {}
    /\ metadata = {}
    /\ alerts = EmptyBag
    /\ usage_logs = EmptyBag
    /\ records = EmptyBag
    /\ anomalies = {}
    /\ next_id = 1
    /\ now = 0
    /\ ret = NoRet
    /\ calls = [p \in Procs |-> Idle]
    /\ \E k \in TaskSet, u \in UsageIntensities, h \in PredictHours,
          d \in PredictDays, l \in PredictLast :
         pin = [task |-> k, tractor |-> PredictTractor(u, 0 - d, h, l)]
    /\ pout = NoDoc

predict ==
    /\ pin # NoDoc
    /\ pout = NoDoc
    /\ pout' = predict_single_task("T1", pin.tractor, pin.task, now)
    /\ UNCHANGED <<tractors, schedules, baselines, metadata, alerts, usage_logs,
                   records, anomalies, next_id, now, ret, calls, pin>>

NextPredict == predict

SpecPredict == InitPredict /\ [][NextPredict]_vars

(* _deduplicate_alerts as a function: a list of schedule and audio alerts is *)
(* drawn, deduplicate applies _deduplicate_alerts to it                      *)
Priorities == {"critical", "high", "medium", "low"}
DedupScores == {5, 7, 9}
DedupAlerts ==
    {ScheduleAlert("T1", k, "due", p, 0) : k \in TaskSet, p \in Priorities}
      \cup {AudioAlert("T1", k, sc, 0) : k \in TaskSet, sc \in DedupScores}

SeqsUpTo(S, n) == UNION {[1..m -> S] : m \in 0..n}

InitDedup ==
    /\ tractors = [t \in Tractors |-> NoTractor]
    /\ schedules = Models
    /\ baselines = {}
    /\ metadata = {}
    /\ alerts = EmptyBag
    /\ usage_logs = EmptyBag
    /\ records = EmptyBag
    /\ anomalies = {}
    /\ next_id = 1
    /\ now = 0
    /\ ret = NoRet
    /\ calls = [p \in Procs |-> Idle]
    /\ \E list \in SeqsUpTo(DedupAlerts, MaxList) : pin = [list |-> list]
    /\ pout = NoDoc

deduplicate ==
    /\ pin # NoDoc
    /\ pout = NoDoc
    /\ pout' = [list |-> _deduplicate_alerts(pin.list)]
    /\ UNCHANGED <<tractors, schedules, baselines, metadata, alerts, usage_logs,
                   records, anomalies, next_id, now, ret, calls, pin>>

NextDedup == deduplicate

SpecDedup == InitDedup /\ [][NextDedup]_vars

(* The health score as a function: a list of alerts and the number of *)
(* anomalies of the last 7 days are drawn                             *)
HealthAlerts ==
    {ScheduleAlert("T1", "engine_oil_change", "overdue", "critical", 0),
     ScheduleAlert("T1", "engine_oil_change", "overdue", "high", 0),
     ScheduleAlert("T1", "coolant_check", "overdue", "medium", 0),
     ScheduleAlert("T1", "coolant_check", "due", "medium", 0),
     AudioAlert("T1", "engine_oil_change", 9, 0)}

InitHealth ==
    /\ tractors = [t \in Tractors |-> NoTractor]
    /\ schedules = Models
    /\ baselines = {}
    /\ metadata = {}
    /\ alerts = EmptyBag
    /\ usage_logs = EmptyBag
    /\ records = EmptyBag
    /\ anomalies = {}
    /\ next_id = 1
    /\ now = 0
    /\ ret = NoRet
    /\ calls = [p \in Procs |-> Idle]
    /\ \E list \in SeqsUpTo(HealthAlerts, MaxHealthAlerts), n \in 0..MaxRecent :
         pin = [list |-> list, anomaly_count |-> n]
    /\ pout = NoDoc

health_score ==
    /\ pin # NoDoc
    /\ pout = NoDoc
    /\ pout' = [score |-> _calculate_health_score(pin.list),
                rule_based |-> _calculate_health_score_rule_based(
                                   pin.list, pin.anomaly_count)]
    /\ UNCHANGED <<tractors, schedules, baselines, metadata, alerts, usage_logs,
                   records, anomalies, next_id, now, ret, calls, pin>>

NextHealth == health_score

SpecHealth == InitHealth /\ [][NextHealth]_vars

(* generate_all_alerts as a function: the Anomaly documents of the store and *)
(* the tractor's engine hours are drawn                                      *)
AudioScores == {6, 8, 9}
AudioAges == {30, 31}
AudioHours == {0, 260}
AudioToday == 40

AnomalyInputs ==
    [tractor_id : Tractors, anomaly_type : AnomalyTypes, anomaly_score : AudioScores,
     handled : BOOLEAN, created_at : {AudioToday - g : g \in AudioAges}]

InitAudio ==
    /\ tractors = [t \in Tractors |-> NoTractor]
    /\ schedules = Models
    /\ baselines = {}
    /\ metadata = {}
    /\ alerts = EmptyBag
    /\ usage_logs = EmptyBag
    /\ records = EmptyBag
    /\ \E list \in SeqsUpTo(AnomalyInputs, MaxAudioAnomalies) :
         anomalies = {[id |-> i, tractor_id |-> list[i].tractor_id,
                       anomaly_type |-> list[i].anomaly_type,
                       anomaly_score |-> list[i].anomaly_score,
                       handled |-> list[i].handled,
                       created_at |-> list[i].created_at] : i \in 1..Len(list)}
    /\ next_id = 1
    /\ now = AudioToday
    /\ ret = NoRet
    /\ calls = [p \in Procs |-> Idle]
    /\ \E h \in AudioHours :
         pin = [tractor |-> PredictTractor("moderate", 0, h, NoRecord)]
    /\ pout = NoDoc

generate ==
    /\ pin # NoDoc
    /\ pout = NoDoc
    /\ pout' = [audio |-> AudioAlertsOf("T1",
                             ToList(RecentUnhandled(anomalies, "T1", now)), now),
                all |-> generate_all_alerts("T1", pin.tractor, anomalies, now)]
    /\ UNCHANGED <<tractors, schedules, baselines, metadata, alerts, usage_logs,
                   records, anomalies, next_id, now, ret, calls, pin>>

NextAudio == generate

SpecAudio == InitAudio /\ [][NextAudio]_vars

(* combine_scores as a function: one deviation and the classifier score and *)
(* weights of two calls are drawn                                           *)
DeviationInputs == {0, 100, 199, 200, 201, 249, 250, 251, 299, 300, 301, 450}
ResnetInputs == {0, 50, 100}
WeightInputs == {<<6, 4>>, <<5, 5>>, <<10, 0>>}

InitFusion ==
    /\ tractors = [t \in Tractors |-> NoTractor]
    /\ schedules = Models
    /\ baselines = {}
    /\ metadata = {}
    /\ alerts = EmptyBag
    /\ usage_logs = EmptyBag
    /\ records = EmptyBag
    /\ anomalies = {}
    /\ next_id = 1
    /\ now = 0
    /\ ret = NoRet
    /\ calls = [p \in Procs |-> Idle]
    /\ \E d \in DeviationInputs, r1 \in ResnetInputs, r2 \in ResnetInputs,
          w1 \in WeightInputs, w2 \in WeightInputs :
         pin = [deviation_score |-> d,
                first |-> [resnet_score |-> r1, weights |-> w1],
                second |-> [resnet_score |-> r2, weights |-> w2]]
    /\ pout = NoDoc

combine ==
    /\ pin # NoDoc
    /\ pout = NoDoc
    /\ pout' = [first |-> combine_scores(pin.first.resnet_score, pin.deviation_score,
                                         pin.first.weights[1], pin.first.weights[2]),
                second |-> combine_scores(pin.second.resnet_score, pin.deviation_score,
                                          pin.second.weights[1], pin.second.weights[2])]
    /\ UNCHANGED <<tractors, schedules, baselines, metadata, alerts, usage_logs,
                   records, anomalies, next_id, now, ret, calls, pin>>

NextFusion == combine

SpecFusion == InitFusion /\ [][NextFusion]_vars

(* upload_audio as a function of the stored baselines and of what the audio *)
(* file and the classifier give                                             *)
UploadProbabilities == {10, 50, 55, 60, 61, 75, 76, 90, 91}
UploadIndicators == 0..3
UploadDeviations == {100, 250}
UploadBaselines ==
    {{}, {NewBaseline("T1", 1, <<"ok", "ok", "ok">>)},
     {[NewBaseline("T1", 1, <<"ok", "ok", "ok">>) EXCEPT !.status = "archived"]}}

InitUpload ==
    /\ tractors = [t \in Tractors |->
                     IF t = "T1" THEN PredictTractor("moderate", 0, 0, NoRecord)
                     ELSE NoTractor]
    /\ schedules = Models
    /\ baselines \in UploadBaselines
    /\ metadata = {}
    /\ alerts = EmptyBag
    /\ usage_logs = EmptyBag
    /\ records = EmptyBag
    /\ anomalies = {}
    /\ next_id = 2
    /\ now = 0
    /\ ret = NoRet
    /\ calls = [p \in Procs |-> Idle]
    /\ \E f \in AudioFiles, l \in BOOLEAN, p \in UploadProbabilities,
          i \in UploadIndicators, d \in UploadDeviations :
         pin = [file |-> f, loaded |-> l, probability |-> p, indicators |-> i,
                deviation |-> d]
    /\ pout = NoDoc

upload ==
    /\ pin # NoDoc
    /\ pout = NoDoc
    /\ \E t \in Tractors :
         pout' = [tractor |-> t,
                  out |-> upload_audio(tractors, baselines, t, pin.file, pin.loaded,
                                       pin.probability, pin.indicators, pin.deviation)]
    /\ UNCHANGED <<tractors, schedules, baselines, metadata, alerts, usage_logs,
                   records, anomalies, next_id, now, ret, calls, pin>>

NextUpload == upload

SpecUpload == InitUpload /\ [][NextUpload]_vars

----------------------------------------------------------------------------
(* Engine hours *)

Exists(t) == tractors[t] # NoTractor

StoresUnchanged == UNCHANGED <<tractors, usage_logs, alerts, records>>

(* C5: every successful engine-hours update of a tractor (log_daily_usage,    *)
(* update_tractor, Tractor.update_engine_hours) ends with engine_hours >= the *)
(* previous value; a call whose value is lower than the current engine_hours  *)
(* fails and leaves the tractor, the usage log, the alerts and the records    *)
(* unchanged.                                                                 *)
C5_MonotonicEngineHours ==
    [][/\ \A t \in Tractors :
            (Exists(t) /\ tractors'[t] # NoTractor)
               => tractors'[t].engine_hours >= tractors[t].engine_hours
       /\ \A t \in Tractors, h \in HourInputs :
            (/\ Exists(t)
             /\ h < tractors[t].engine_hours
             /\ \/ log_daily_usage(t, h)
                \/ update_engine_hours(t, h)
                \/ \E u \in UsageInputs \cup {NoUsage} : update_tractor(t, h, u))
               => (ret'.status = "hours_decreased" /\ StoresUnchanged)]_vars

(* a lower value was rejected after a usage log had raised the hours *)
C5_Witness ==
    /\ ret.op = "log_usage"
    /\ ret.status = "hours_decreased"
    /\ \E l \in BagToSet(usage_logs) :
         l.tractor_id = ret.tractor /\ l.end_hours > l.start_hours

----------------------------------------------------------------------------
(* Alert store *)

UnresolvedCount(as, t, task) ==
    BagCardinality([a \in Unresolved(as, t, task) |-> CopiesIn(a, as)])

(* C4: after any sequence of non-overlapping log_daily_usage,                 *)
(* record_maintenance, create_maintenance_task and create_test_alert calls,   *)
(* the alert store holds at most one alert whose status is not completed for  *)
(* each (tractor_id, task_name) pair.                                         *)
C4_OneUnresolvedAlertPerTask ==
    \A t \in Tractors, k \in TaskNames : UnresolvedCount(alerts, t, k) <= 1

(* two create_test_alert calls for one tractor left two open test alerts *)
C4_Witness ==
    /\ ret.op = "test_alert"
    /\ ret.status = "ok"
    /\ UnresolvedCount(alerts, ret.tractor, TestTask) = 2

(* C6: when record_maintenance for a tractor and a task returns, every alert  *)
(* of that tractor and task whose status was not completed is now completed   *)
(* with resolved_at set, no alert of the pair is left unresolved, and         *)
(* last_maintenance[task] holds the recorded completion date and hours.       *)
C6_RecordMaintenanceResolves ==
    [][\A t \in Tractors, k \in TaskNames, h \in HourInputs :
         (Exists(t) /\ record_maintenance(t, k, now, h))
            => /\ \A a \in Unresolved(alerts, t, k) :
                    /\ Completed(a, now).resolved_at # NoTime
                    /\ CopiesIn(Completed(a, now), alerts')
                          >= CopiesIn(a, alerts)
               /\ Unresolved(alerts', t, k) = {}
               /\ BagCardinality(alerts') = BagCardinality(alerts)
               /\ tractors'[t].last_maintenance[k] =
                     [date |-> now, engine_hours |-> h]]_vars

(* a recorded oil change completed the open oil-change alert of the tractor *)
C6_Witness ==
    /\ ret.op = "record_maintenance"
    /\ ret.status = "ok"
    /\ ret.task = "engine_oil_change"
    /\ \E a \in BagToSet(alerts) :
         /\ a.tractor_id = ret.tractor
         /\ a.task_name = ret.task
         /\ a.status = "completed"
         /\ a.resolved_at # NoTime
    /\ tractors[ret.tractor].last_maintenance[ret.task] =
          [date |-> ret.date, engine_hours |-> ret.hours]

----------------------------------------------------------------------------
(* Schedule thresholds *)

(* the exact progress is at least c / 10 *)
ExactAtLeast(hs, ds, f, task, c) ==
    10 * ProgressNum(hs, ds, f, task) >= c * ProgressDen(task)

IsAlert(a, status, priority) ==
    a # NoAlert /\ a.status = status /\ a.priority = priority

(* C7: for every task the predictor returns no alert when progress < 0.9, a   *)
(* due alert with the base priority when 0.9 <= progress < 1.0, an overdue    *)
(* alert with the base priority when 1.0 <= progress < 1.1 and an overdue     *)
(* alert with priority critical when progress >= 1.1, progress being          *)
(* max(hours_since / interval_hours, days_since / interval_days) with the     *)
(* intervals divided by the usage factor; with 250 h at moderate usage,       *)
(* hours_since = 225 gives a due alert and a smaller hours_since (day         *)
(* progress below 0.9) gives none.                                            *)
C7_ThresholdLadder ==
    pout # NoDoc =>
      LET task == pin.task
          hs   == HoursSince(pin.tractor, task)
          ds   == DaysSince(pin.tractor, task, now)
          f    == _get_usage_factor(pin.tractor.usage_intensity)
          base == MAINTENANCE_SCHEDULES[task].priority
      IN  /\ ~ExactAtLeast(hs, ds, f, task, 9) => pout = NoAlert
          /\ (ExactAtLeast(hs, ds, f, task, 9) /\ ~ExactAtLeast(hs, ds, f, task, 10))
                => IsAlert(pout, "due", base)
          /\ (ExactAtLeast(hs, ds, f, task, 10) /\ ~ExactAtLeast(hs, ds, f, task, 11))
                => IsAlert(pout, "overdue", base)
          /\ ExactAtLeast(hs, ds, f, task, 11) => IsAlert(pout, "overdue", "critical")
          /\ (/\ task = "engine_oil_change"
              /\ pin.tractor.usage_intensity = "moderate"
              /\ 10 * ds < 9 * OilIntervalDays)
                => /\ hs = 225 => IsAlert(pout, "due", base)
                   /\ hs < 225 => pout = NoAlert

(* coolant_check (50 h) at extreme usage, 30 hours after the service: the *)
(* exact progress is 0.9 and the predictor returns no alert               *)
C7_Witness ==
    /\ pout = NoAlert
    /\ pin.task = "coolant_check"
    /\ pin.tractor.usage_intensity = "extreme"
    /\ HoursSince(pin.tractor, pin.task) = 30
    /\ ExactAtLeast(30, DaysSince(pin.tractor, pin.task, now), 15, pin.task, 9)

----------------------------------------------------------------------------
(* Usage factor *)

UsageRank == [light |-> 1, moderate |-> 2, heavy |-> 3, extreme |-> 4]

(* no alert < due < overdue < overdue with priority critical *)
Urgency(a) ==
    IF a = NoAlert THEN 0
    ELSE IF a.status = "due" THEN 1
    ELSE IF a.priority # "critical" THEN 2
    ELSE 3

WithUsage(tr, u) == [tr EXCEPT !.usage_intensity = u]

(* C9: the effective intervals are the catalog intervals divided by the usage *)
(* factor (light 0.8, moderate 1.0, heavy 1.2, extreme 1.5, here in tenths);  *)
(* for fixed hours and days since service a heavier usage intensity never     *)
(* gives a less urgent outcome than a lighter one.                            *)
C9_HeavierUsageNotLessUrgent ==
    pout # NoDoc =>
      /\ _get_usage_factor("light") = 8
      /\ _get_usage_factor("moderate") = 10
      /\ _get_usage_factor("heavy") = 12
      /\ _get_usage_factor("extreme") = 15
      /\ \A u \in UsageIntensities :
           UsageRank[u] >= UsageRank[pin.tractor.usage_intensity]
             => Urgency(predict_single_task("T1", WithUsage(pin.tractor, u),
                                            pin.task, now))
                  >= Urgency(pout)

(* the same hours and days give no alert at light usage, a due alert at *)
(* moderate usage and a critical overdue alert at extreme usage         *)
C9_Witness ==
    /\ pout = NoAlert
    /\ pin.tractor.usage_intensity = "light"
    /\ Urgency(predict_single_task("T1", WithUsage(pin.tractor, "moderate"),
                                   pin.task, now)) = 1
    /\ Urgency(predict_single_task("T1", WithUsage(pin.tractor, "extreme"),
                                   pin.task, now)) = 3

----------------------------------------------------------------------------
(* Never-serviced tasks *)

NeverServiced(t, task) ==
    ~\E r \in BagToSet(records) : r.tractor_id = t /\ r.task_name = task

(* the scenario: oil change (250 h / 180 d), moderate usage, bought 200 days *)
(* ago, now at 260 engine hours                                              *)
Scenario(tr) ==
    /\ tr.model \in schedules
    /\ tr.usage_intensity = "moderate"
    /\ now - tr.purchase_date = 200
    /\ tr.engine_hours = 260

AlertsOfTask(list, task) == SelectSeq(list, LAMBDA a : a.task_name = task)

(* C8 as stated: a task that was never serviced counts from the purchase   *)
(* date and from 0 engine hours.                                           *)
C8_NeverServicedCountsFromZero ==
    \A t \in Tractors, k \in TaskSet :
        (Exists(t) /\ NeverServiced(t, k))
           => /\ DaysSince(tractors[t], k, now) = now - tractors[t].purchase_date
              /\ HoursSince(tractors[t], k) = tractors[t].engine_hours

(* C8, amended: a task that was never serviced counts from the purchase date  *)
(* and from the engine hours the tractor was registered with (create_tractor  *)
(* stores them as the task's last_maintenance when the model has a schedule), *)
(* and from 0 engine hours only when the tractor has no last_maintenance      *)
(* entry for the task; the never-serviced oil change (250 h / 180 d) of a     *)
(* moderate-usage tractor bought 200 days ago and now at 260 hours yields one *)
(* alert, overdue, critical, due now.                                         *)
C8_NeverServicedCountsFromRegistration ==
    \A t \in Tractors, k \in TaskSet :
        (Exists(t) /\ NeverServiced(t, k))
           => LET tr == tractors[t]
              IN  /\ DaysSince(tr, k, now) = now - tr.purchase_date
                  /\ tr.last_maintenance[k] = NoRecord
                        => HoursSince(tr, k) = tr.engine_hours
                  /\ (ret = [op |-> "create_tractor", status |-> "ok", tractor |-> t]
                        /\ tr.model \in schedules)
                        => HoursSince(tr, k) = 0
                  /\ (k = "engine_oil_change" /\ Scenario(tr))
                        => AlertsOfTask(generate_all_alerts(t, tr, anomalies, now), k)
                             = <<ScheduleAlert(t, k, "overdue", "critical", now)>>

(* the scenario on a tractor registered with 100 engine hours: its stored *)
(* oil-change alert is overdue, critical and due now                      *)
C8_Witness ==
    \E t \in Tractors :
        /\ Exists(t)
        /\ NeverServiced(t, "engine_oil_change")
        /\ Scenario(tractors[t])
        /\ tractors[t].last_maintenance["engine_oil_change"] # NoRecord
        /\ tractors[t].last_maintenance["engine_oil_change"].engine_hours = 100
        /\ ret = [op |-> "log_usage", status |-> "ok", tractor |-> t]
        /\ \E a \in BagToSet(alerts) :
             /\ a.tractor_id = t
             /\ a.task_name = "engine_oil_change"
             /\ a.status = "overdue"
             /\ a.priority = "critical"
             /\ a.due_date = now

----------------------------------------------------------------------------
(* Deduplication *)

Elems(list) == {list[i] : i \in 1..Len(list)}

(* C10: for every list of alerts, _deduplicate_alerts returns exactly one   *)
(* alert for each distinct task_name of the input, and that alert is an     *)
(* input alert of the task with the highest priority (critical before high  *)
(* before medium before low) among the input alerts with that task_name.    *)
C10_OneHighestPriorityPerTask ==
    pout # NoDoc =>
      /\ \A a \in Elems(pin.list) :
           Cardinality({i \in 1..Len(pout.list) :
                          pout.list[i].task_name = a.task_name}) = 1
      /\ \A b \in Elems(pout.list) :
           /\ b \in Elems(pin.list)
           /\ \A a \in Elems(pin.list) :
                a.task_name = b.task_name
                  => priority_order[b.priority] <= priority_order[a.priority]

(* a later alert of a task with a higher priority replaced the earlier one *)
C10_Witness ==
    /\ pout # NoDoc
    /\ Len(pin.list) = 3
    /\ Len(pout.list) = 2
    /\ pin.list[1].task_name = pin.list[3].task_name
    /\ priority_order[pin.list[3].priority] < priority_order[pin.list[1].priority]
    /\ pout.list[1] = pin.list[3]

----------------------------------------------------------------------------
(* Baseline exclusivity *)

(* C2: in every state reached by non-overlapping start_baseline_collection,  *)
(* add_baseline_sample, finalize_baseline, delete_baseline and               *)
(* delete_specific_baseline calls, each tractor has at most one              *)
(* TractorBaseline with is_active = true.                                    *)
C2_OneActiveBaseline ==
    \A t \in Tractors : Cardinality(ActiveOf(baselines, t)) <= 1

(* a second finalize archived the first baseline of the tractor *)
C2_Witness ==
    /\ ret.op = "finalize"
    /\ ret.status = "ok"
    /\ Cardinality(ActiveOf(baselines, ret.tractor)) = 1
    /\ \E b \in baselines :
         b.tractor_id = ret.tractor /\ ~b.is_active /\ b.status = "archived"

----------------------------------------------------------------------------
(* Overlapping requests *)

(* C1: when two finalize_baseline calls for a tractor run with their storage *)
(* reads and writes interleaved in any order, at most one TractorBaseline of *)
(* the tractor has is_active = true in every state, the state after both     *)
(* calls have returned included.                                             *)
C1_OneActiveBaselineInterleaved ==
    \A t \in Tractors :
        \A b1, b2 \in baselines :
            (b1.tractor_id = t /\ b2.tractor_id = t /\ b1.is_active /\ b2.is_active)
               => b1 = b2

(* both finalize calls have returned and two baselines of the tractor are active *)
C1_Witness ==
    /\ \A p \in Procs : calls[p] = Idle
    /\ ret = [op |-> "finalize", status |-> "ok", tractor |-> "T1"]
    /\ Cardinality(ActiveOf(baselines, "T1")) = 2

(* C3: when two requests that persist alerts for the same tractor and task   *)
(* interleave their find-then-insert steps in any order, the alert store     *)
(* never holds two alerts with status other than completed for that          *)
(* (tractor_id, task_name) pair.                                             *)
C3_OneUnresolvedAlertInterleaved ==
    \A t \in Tractors, k \in TaskNames :
        BagCardinality([a \in Unresolved(alerts, t, k) |-> CopiesIn(a, alerts)]) < 2

(* both usage logs have returned and the oil change has two open alerts *)
C3_Witness ==
    /\ \A p \in Procs : calls[p] = Idle
    /\ ret = [op |-> "log_usage", status |-> "ok", tractor |-> "T1"]
    /\ UnresolvedCount(alerts, "T1", "engine_oil_change") = 2

(* C11: alert deduplication is idempotent and non-expanding: running it    *)
(* again on the identical list gives the identical output, applying it to  *)
(* its own output changes nothing, and the output never has more alerts    *)
(* than the raw list of schedule and audio alerts.                         *)
C11_DedupIdempotent ==
    pout # NoDoc =>
      /\ _deduplicate_alerts(pin.list) = pout.list
      /\ _deduplicate_alerts(pout.list) = pout.list
      /\ Len(pout.list) <= Len(pin.list)

(* three raw alerts of two tasks were reduced to two alerts *)
C11_Witness ==
    /\ pout # NoDoc
    /\ Len(pin.list) = 3
    /\ Len(pout.list) = 2
    /\ pout.list[1].task_name # pout.list[2].task_name
    /\ _deduplicate_alerts(pout.list) = pout.list

----------------------------------------------------------------------------
(* Health score *)

CountOverdue(list, priorities) ==
    Cardinality({i \in 1..Len(list) :
                   list[i].status = "overdue" /\ list[i].priority \in priorities})

ExpectedHealth(list, n) ==
    LET raw == 100 - 20 * CountOverdue(list, {"critical"})
                   - 10 * CountOverdue(list, {"high"})
                   - 5 * CountOverdue(list, {"medium", "low"})
                   - Min(5 * n, 30)
    IN  Max(0, Min(100, raw))

(* C12: the health score reported by the unified engine equals 100 minus 20  *)
(* per overdue critical alert, 10 per overdue high alert and 5 per other     *)
(* overdue alert, minus min(5 x number of anomalies in the last 7 days, 30), *)
(* clamped to [0, 100].                                                      *)
C12_HealthScore ==
    pout # NoDoc =>
      /\ pout.score = ExpectedHealth(pin.list, pin.anomaly_count)
      /\ pout.rule_based = ExpectedHealth(pin.list, pin.anomaly_count)

(* no overdue alert and one anomaly in the last 7 days: the application *)
(* reports 100, the standalone engine 95                                *)
C12_Witness ==
    /\ pout # NoDoc
    /\ pin.list = <<>>
    /\ pin.anomaly_count = 1
    /\ pout.score = 100
    /\ pout.rule_based = 95

----------------------------------------------------------------------------
(* Audio alerts *)

Qualifying == {a \in anomalies : a.tractor_id = "T1" /\ a.handled = FALSE
                                   /\ now - a.created_at <= 30}

SuggestedInSchedule(a) ==
    {k \in TaskSet : \E i \in 1..Len(Suggested(a.anomaly_type)) :
                       Suggested(a.anomaly_type)[i] = k}

ExpectedAudio(a, k, alert) ==
    /\ alert.alert_type = "audio_anomaly"
    /\ alert.tractor_id = "T1"
    /\ alert.task_name = k
    /\ alert.audio_anomaly_score = a.anomaly_score
    /\ IF a.anomaly_score > 8
       THEN alert.priority = "critical" /\ alert.due_date = now
       ELSE IF a.anomaly_score > 6
            THEN alert.priority = "high" /\ alert.due_date = now + 1
            ELSE alert.priority = "medium" /\ alert.due_date = now + 3

RECURSIVE NumExpected(_)
NumExpected(S) ==
    IF S = {} THEN 0
    ELSE LET a == CHOOSE y \in S : TRUE
         IN  Cardinality(SuggestedInSchedule(a)) + NumExpected(S \ {a})

----------------------------------------------------------------------------
(* Score fusion *)

C15_StatusFromDeviationOnly ==
    pout # NoDoc =>
      /\ pout.first.status = pout.second.status
      /\ pout.first.recommendation = pout.second.recommendation
      /\ pout.first.deviation_score = pout.second.deviation_score

(* the same deviation of 2.0 sigma with classifier scores 0 and 1: the *)
(* combined scores differ, both calls say watch                         *)
C15_Witness ==
    /\ pout # NoDoc
    /\ pin.deviation_score = 200
    /\ pin.first.resnet_score = 0
    /\ pin.second.resnet_score = 100
    /\ pin.first.weights # pin.second.weights
    /\ pout.first.combined_score # pout.second.combined_score
    /\ pout.first.status = "watch"
    /\ pout.second.status = "watch"

----------------------------------------------------------------------------
(* Collection sessions *)

(* C16: start_collection for a tractor that already has a session in the     *)
(* collecting (establishing) state fails with an already-collecting error    *)
(* and creates no second session; for a tractor without one it creates       *)
(* exactly one collecting session with collected count 0.                    *)
C16_StartCollection ==
    [][\A t \in Tractors, n \in TargetSamples :
         (Exists(t) /\ start_baseline_collection(t, n))
            => IF Establishing(metadata, t) # {}
               THEN /\ ret'.status = "already_collecting"
                    /\ metadata' = metadata
               ELSE /\ \E m \in metadata' \ metadata :
                         /\ metadata' = metadata \cup {m}
                         /\ m.tractor_id = t
                         /\ m.status = "establishing"
                         /\ m.collected_samples = 0
                         /\ m.sample_files = <<>>
                    /\ Cardinality(Establishing(metadata', t)) = 1]_vars

(* the second start of a tractor answered as a success with the session *)
(* that was already collecting                                          *)
C16_Witness ==
    /\ ret.op = "start"
    /\ ret.status = "existing"
    /\ \E m \in Establishing(metadata, ret.tractor) : m.collected_samples = 2
    /\ Cardinality(Establishing(metadata, ret.tractor)) = 1

(* C17: add_sample for a tractor with no session in the collecting state     *)
(* fails with a no-active-collection error and changes no stored session;    *)
(* otherwise it appends the audio reference at the end of the session's      *)
(* sample list, raises the collected count by exactly one and returns the    *)
(* new (collected, target) progress.                                         *)
C17_AddSample ==
    [][\A t \in Tractors, f \in AudioFiles :
         (Exists(t) /\ add_baseline_sample(t, f))
            => IF Establishing(metadata, t) = {}
               THEN /\ ret'.status = "no_collection"
                    /\ metadata' = metadata
                    /\ baselines' = baselines
               ELSE \E m \in Establishing(metadata, t) :
                      \E m2 \in metadata' :
                        /\ metadata' \ {m2} = metadata \ {m}
                        /\ m2.id = m.id
                        /\ m2.status = "establishing"
                        /\ Len(m2.sample_files) = Len(m.sample_files) + 1
                        /\ m2.sample_files[Len(m2.sample_files)] = f
                        /\ SubSeq(m2.sample_files, 1, Len(m.sample_files))
                              = m.sample_files
                        /\ m2.collected_samples = m.collected_samples + 1
                        /\ m2.target_samples = m.target_samples
                        /\ ret'.status = "ok"
                        /\ ret'.collected_samples = m2.collected_samples
                        /\ ret'.target_samples = m2.target_samples]_vars

(* a sample without features added after one with features *)
C17_Witness ==
    /\ ret.op = "add_sample"
    /\ ret.status = "ok"
    /\ ret.collected_samples = 2
    /\ ret.target_samples = 3
    /\ \E m \in Establishing(metadata, ret.tractor) :
         m.sample_files = <<"ok", "bad">>

(* C18: finalize fails when the session has fewer than 3 collected samples,  *)
(* and also when fewer than 3 of its samples yield features; in both cases   *)
(* the session stays in the collecting state, no baseline record is created  *)
(* and a previously active baseline of the tractor stays active.             *)
C18_FinalizeNeedsThree ==
    [][\A t \in Tractors :
         (Exists(t) /\ finalize_baseline(t))
            => \A m \in Establishing(metadata, t) :
                 (m.collected_samples < 3
                    \/ Cardinality({i \in 1..Len(m.sample_files) :
                                      m.sample_files[i] = "ok"}) < 3)
                   => /\ ret'.status \in {"need_samples", "need_features"}
                      /\ m.collected_samples < 3 => ret'.status = "need_samples"
                      /\ metadata' = metadata
                      /\ m \in Establishing(metadata', t)
                      /\ baselines' = baselines
                      /\ ActiveOf(baselines', t) = ActiveOf(baselines, t)]_vars

(* three collected samples of which one yields no features: the finalize is *)
(* refused and the baseline of the first session is still the active one    *)
C18_Witness ==
    /\ ret.op = "finalize"
    /\ ret.status = "need_features"
    /\ \E m \in Establishing(metadata, ret.tractor) : m.collected_samples = 3
    /\ Cardinality(ActiveOf(baselines, ret.tractor)) = 1

(* C19: in every reachable state of a baseline collection session,          *)
(* collected_sample_count <= target_sample_count, whatever number of        *)
(* add_sample calls is made.                                                *)
C19_CollectedWithinTarget ==
    \A m \in metadata : m.collected_samples <= m.target_samples

(* a fourth sample accepted by a session whose target is three *)
C19_Witness ==
    /\ ret.op = "add_sample"
    /\ ret.status = "ok"
    /\ ret.collected_samples = 4
    /\ ret.target_samples = 3

(* C20: a successful finalize moves the session out of the collecting state  *)
(* (add_sample and finalize fail until a new start_collection) and adds      *)
(* exactly one baseline record, which is active; the baseline that was       *)
(* active before is kept in the store with is_active = false and status      *)
(* archived, never deleted.                                                  *)
C20_FinalizeArchives ==
    [][\A t \in Tractors :
         /\ (Exists(t) /\ finalize_baseline(t) /\ ret'.status = "ok")
               => /\ Establishing(metadata', t) = {}
                  /\ \E b \in baselines' :
                       /\ \A old \in baselines : old.id # b.id
                       /\ b.tractor_id = t
                       /\ b.is_active
                       /\ b.status = "active"
                       /\ Cardinality(baselines') = Cardinality(baselines) + 1
                  /\ \A old \in baselines :
                       IF old \in ActiveOf(baselines, t)
                       THEN [old EXCEPT !.is_active = FALSE, !.status = "archived"]
                               \in baselines'
                       ELSE old \in baselines'
         /\ (Exists(t) /\ Establishing(metadata, t) = {} /\ finalize_baseline(t))
               => ret'.status = "no_collection" /\ baselines' = baselines
         /\ \A f \in AudioFiles :
              (Exists(t) /\ Establishing(metadata, t) = {} /\ add_baseline_sample(t, f))
                 => ret'.status = "no_collection" /\ metadata' = metadata]_vars

(* the second successful finalize of a tractor: the first baseline is kept *)
(* archived next to the new active one and no session is collecting        *)
C20_Witness ==
    /\ ret.op = "finalize"
    /\ ret.status = "ok"
    /\ Establishing(metadata, ret.tractor) = {}
    /\ Cardinality({b \in baselines : b.tractor_id = ret.tractor}) = 2
    /\ \E b \in baselines : ~b.is_active /\ b.status = "archived"
    /\ Cardinality(ActiveOf(baselines, ret.tractor)) = 1

----------------------------------------------------------------------------
(* Deleting baselines *)

(* C21: after delete_baseline for a tractor returns, the tractor has no      *)
(* baseline record with is_active = true and no session in the collecting    *)
(* state, and its other (archived) baseline records are left in the store.   *)
C21_DeleteLeavesNoActive ==
    [][\A t \in Tractors :
         (Exists(t) /\ delete_baseline(t))
            => /\ ActiveOf(baselines', t) = {}
               /\ Establishing(metadata', t) = {}
               /\ \A b \in baselines : ~b.is_active => b \in baselines']_vars

(* delete_baseline returned and a baseline that delete_specific_baseline had *)
(* reactivated is still there with is_active = true and status archived      *)
C21_Witness ==
    /\ ret.op = "delete"
    /\ ret.status = "ok"
    /\ tractors[ret.tractor].baseline_status = "pending"
    /\ \E b \in ActiveOf(baselines, ret.tractor) : b.status = "archived"

(* C26: when delete_specific_baseline removes a tractor's active baseline    *)
(* while other baselines of the tractor remain, the most recently created    *)
(* remaining baseline becomes the active one: it has is_active = true and    *)
(* status active, get_active_baseline returns it and the tractor's           *)
(* baseline_status is completed.                                             *)
C26_ReactivatesLatest ==
    [][\A t \in Tractors, bid \in 1..MaxDocs :
         LET removed == {b \in baselines : b.id = bid /\ b.tractor_id = t /\ b.is_active}
             others == {b \in baselines : b.tractor_id = t /\ b.id # bid}
         IN  (Exists(t) /\ delete_specific_baseline(t, bid)
                /\ removed # {} /\ others # {})
               => \E b \in baselines' :
                    /\ b.id = Latest(others).id
                    /\ b.is_active
                    /\ b.status = "active"
                    /\ get_active_baseline(baselines', t) = {b}
                    /\ tractors'[t].baseline_status = "completed"]_vars

(* the active baseline was removed by id: the older one is active again but *)
(* still archived, and get_active_baseline finds nothing                     *)
C26_Witness ==
    /\ ret.op = "delete_specific"
    /\ ret.status = "ok"
    /\ tractors[ret.tractor].baseline_status = "completed"
    /\ \E b \in ActiveOf(baselines, ret.tractor) : b.status = "archived"
    /\ get_active_baseline(baselines, ret.tractor) = {}

----------------------------------------------------------------------------
(* Failures *)

(* C23: no error is swallowed except the documented filter/extraction        *)
(* fallbacks: a failure while generating or persisting alerts after a usage  *)
(* log reaches the caller as a failure instead of becoming a successful      *)
(* usage-log response (and likewise a failure while evaluating one task's    *)
(* schedule or inside the fallback prediction).  Here: a usage log for a     *)
(* tractor whose model has no schedule, so that load_schedule raises, does   *)
(* not answer as a success.                                                  *)
C23_NoSwallowedError ==
    [][\A t \in Tractors, h \in LogHours :
         (/\ Exists(t)
          /\ tractors[t].model \notin schedules
          /\ ~HoursRejected(h, tractors[t].engine_hours)
          /\ log_daily_usage(t, h))
            => ret'.status # "ok"]_vars

(* a usage log answered as a success while no schedule exists: the hours are *)
(* stored, no alert was generated                                            *)
C23_Witness ==
    /\ ret.op = "log_usage"
    /\ ret.status = "ok"
    /\ schedules = {}
    /\ tractors[ret.tractor].engine_hours = 260
    /\ alerts = EmptyBag

----------------------------------------------------------------------------
(* Audio upload *)

FallbackModels == {"Fallback_Basic_Analysis", "Error_Fallback"}

Uploaded == pout # NoDoc /\ tractors[pout.tractor] # NoTractor

(* C22: when the classifier is unavailable and the fallback heuristic        *)
(* produces the score, the result is never reported as a normal classifier   *)
(* success: the prediction result and the AudioPrediction record that        *)
(* upload_audio builds for the store both carry a model identifier that      *)
(* names the fallback rather than the neural classifier.                     *)
C22_FallbackIsNamed ==
    (Uploaded /\ ~pin.loaded) =>
       /\ pout.out.result.ml_model \in FallbackModels
       /\ pout.out.prediction.ml_model \in FallbackModels

(* the fallback scored the file and the record built by the route names the *)
(* neural classifier                                                         *)
C22_Witness ==
    /\ Uploaded
    /\ ~pin.loaded
    /\ pin.file = "ok"
    /\ pout.out.result.ml_model = "Fallback_Basic_Analysis"
    /\ pout.out.prediction.ml_model = "ResNet_Transfer_Learning"

(* C24: when the tractor has no active baseline, an audio upload computes no *)
(* deviation and no combined score and writes no trend record, and the       *)
(* anomaly type comes from the classifier probability p alone: p > 0.9       *)
(* critical_anomaly, p > 0.75 high_vibration, p > 0.6 unusual_noise, and     *)
(* minor_anomaly for the remaining anomalous probabilities.                  *)
C24_ClassifierOnly ==
    (/\ Uploaded
     /\ pin.loaded
     /\ pout.out.result # Raised
     /\ get_active_baseline(baselines, pout.tractor) = {}) =>
       LET p == pin.probability
           type == pout.out.result.anomaly_type
       IN  /\ pout.out.comparison = NoDoc
           /\ pout.out.trend = NoDoc
           /\ pout.out.prediction.confidence = pout.out.result.confidence
           /\ p > 90 => type = "critical_anomaly"
           /\ (p > 75 /\ p <= 90) => type = "high_vibration"
           /\ (p > 60 /\ p <= 75) => type = "unusual_noise"
           /\ (p > 50 /\ p <= 60) => type = "minor_anomaly"

(* a probability of exactly 0.9 without any baseline: high_vibration, no *)
(* comparison and no trend                                               *)
C24_Witness ==
    /\ Uploaded
    /\ pin.loaded
    /\ baselines = {}
    /\ pin.probability = 90
    /\ pout.out.result.anomaly_type = "high_vibration"
    /\ pout.out.comparison = NoDoc
    /\ pout.out.trend = NoDoc

----------------------------------------------------------------------------
(* Overlapping engine-hours writes *)

(* C25: when two engine-hours writes for the same tractor (log_daily_usage   *)
(* and/or update_tractor) interleave their read, check and save steps in any *)
(* order, the stored engine_hours never changes from a higher value to a     *)
(* lower one.                                                                *)
C25_HoursNeverDecreaseInterleaved ==
    [][\A t \in Tractors :
         (Exists(t) /\ tractors'[t] # NoTractor)
            => tractors'[t].engine_hours >= tractors[t].engine_hours]_vars

(* both requests have returned: a usage log ends at 260 hours and the *)
(* tractor is stored with 100                                          *)
C25_Witness ==
    /\ \A p \in Procs : calls[p] = Idle
    /\ Exists("T1")
    /\ tractors["T1"].engine_hours = 100
    /\ \E l \in BagToSet(usage_logs) : l.end_hours = 260

----------------------------------------------------------------------------
(* Service history *)

RecordsOf(t, task) ==
    {r \in BagToSet(records) : r.tractor_id = t /\ r.task_name = task}

(* C29: for every tractor and task, after any sequence of record_maintenance *)
(* calls, last_maintenance[task] is the entry of the recorded event with the *)
(* latest completion date: recording an event with an earlier completion     *)
(* date never replaces a later one.                                          *)
C29_LastMaintenanceIsLatest ==
    \A t \in Tractors : Exists(t) =>
      \A k \in TaskSet : \A r \in RecordsOf(t, k) :
        /\ tractors[t].last_maintenance[k] # NoRecord
        /\ tractors[t].last_maintenance[k].date >= r.completion_date

(* a service of day 0 recorded after a service of day 200: last_maintenance *)
(* holds day 0                                                               *)
C29_Witness ==
    /\ ret.op = "record_maintenance"
    /\ ret.status = "ok"
    /\ ret.date = 0
    /\ tractors[ret.tractor].last_maintenance[ret.task].date = 0
    /\ \E r \in RecordsOf(ret.tractor, ret.task) : r.completion_date = 200

(* C30: in every state reachable through create_tractor, log_daily_usage,    *)
(* update_tractor and record_maintenance, the engine hours stored in         *)
(* last_maintenance[task] never exceed the tractor's current engine_hours,   *)
(* so hours_since_service used by the schedule predictor is never negative.  *)
C30_ServiceHoursWithinEngineHours ==
    \A t \in Tractors : Exists(t) =>
      \A k \in TaskSet :
        /\ LastHours(tractors[t], k) <= tractors[t].engine_hours
        /\ HoursSince(tractors[t], k) >= 0

(* a service recorded at 260 hours on a tractor that stands at 100 hours *)
C30_Witness ==
    /\ ret.op = "record_maintenance"
    /\ ret.status = "ok"
    /\ ret.hours = 260
    /\ tractors[ret.tractor].engine_hours = 100
    /\ HoursSince(tractors[ret.tractor], ret.task) = -160

----------------------------------------------------------------------------
(* Stored alerts against generated alerts *)

(* C27: after log_daily_usage returns, for every task for which the engine   *)
(* generated an alert in that call, the stored unresolved alert of that task *)
(* is at least as urgent as the generated one (same or higher priority, and  *)
(* overdue if the generated one is overdue); an older stored 'due' alert is  *)
(* therefore escalated once the task becomes overdue or critical.            *)
C27_StoredAlertAsUrgent ==
    [][\A t \in Tractors, h \in LogHours :
         (Exists(t) /\ log_daily_usage(t, h) /\ ret'.status = "ok")
            => LET generated == AlertsAfterUsage(t, tractors'[t], now)
               IN  \A i \in 1..Len(generated) :
                     \E a \in Unresolved(alerts', t, generated[i].task_name) :
                       /\ priority_order[a.priority]
                             <= priority_order[generated[i].priority]
                       /\ generated[i].status = "overdue" => a.status = "overdue"]_vars

(* a usage log returned: the engine gives a critical alert for a task whose *)
(* stored unresolved alert is still the older one of priority high          *)
C27_Witness ==
    /\ ret.op = "log_usage"
    /\ ret.status = "ok"
    /\ LET generated == AlertsAfterUsage(ret.tractor, tractors[ret.tractor], now)
       IN  \E i \in 1..Len(generated) :
             /\ generated[i].priority = "critical"
             /\ \E a \in Unresolved(alerts, ret.tractor, generated[i].task_name) :
                  a.priority = "high"

----------------------------------------------------------------------------
(* Alerts after a service *)

CompletedAlerts(as, t, task) ==
    {a \in BagToSet(as) :
        a.tractor_id = t /\ a.task_name = task /\ a.status = "completed"}

(* every anomaly of the tractor already led to an alert of the task that *)
(* has been completed since                                               *)
NoNewAnomaly(t, task) ==
    \A n \in anomalies : n.tractor_id = t =>
      \E c \in CompletedAlerts(alerts, t, task) :
        /\ c.alert_type = "audio_anomaly"
        /\ c.audio_anomaly_score = n.anomaly_score
        /\ c.resolved_at >= n.created_at

(* C28: once record_maintenance has completed the alerts of a task, a later  *)
(* log_daily_usage does not create a new unresolved alert for that task as   *)
(* long as no new anomaly has been recorded since and the task's schedule    *)
(* progress is below 0.9; in particular an anomaly that already led to a     *)
(* completed alert does not re-create it.                                    *)
C28_NoAlertAfterService ==
    [][\A t \in Tractors, h \in LogHours, k \in TaskSet :
         (/\ Exists(t)
          /\ log_daily_usage(t, h)
          /\ ret'.status = "ok"
          /\ CompletedAlerts(alerts, t, k) # {}
          /\ Unresolved(alerts, t, k) = {}
          /\ NoNewAnomaly(t, k)
          /\ predict_single_task(t, tractors'[t], k, now) = NoAlert)
            => Unresolved(alerts', t, k) = {}]_vars

(* the oil change was recorded and its audio alert completed; the next usage *)
(* log stored the same audio alert again from the same anomaly               *)
C28_Witness ==
    /\ ret.op = "log_usage"
    /\ ret.status = "ok"
    /\ Cardinality(anomalies) = 1
    /\ NoNewAnomaly(ret.tractor, "engine_oil_change")
    /\ predict_single_task(ret.tractor, tractors[ret.tractor],
                           "engine_oil_change", now) = NoAlert
    /\ \E a \in Unresolved(alerts, ret.tractor, "engine_oil_change") :
         /\ a.alert_type = "audio_anomaly"
         /\ \E c \in CompletedAlerts(alerts, ret.tractor, "engine_oil_change") :
              c.audio_anomaly_score = a.audio_anomaly_score

====
